---- MODULE Spec2Model ----
(***************************************************************************)
(* Housing market simulation: Market (tick lifecycle), Auction (Vickrey    *)
(* batch clearing), Person / House (ownership) and the statistics          *)
(* snapshot, as a state machine.                                           *)
(*                                                                         *)
(* Money is an integer.  Real-valued factors of the code (0.7, 1.5, 0.05,  *)
(* 0.75, 0.8) are pairs <<numerator, denominator>>; a comparison of two    *)
(* reals is the comparison of the cross-multiplied integers.  The sampled  *)
(* wealths and prices are drawn from sets on which every product the code  *)
(* forms is an integer, so no rounding takes place in the model.           *)
(***************************************************************************)
EXTENDS Integers, Sequences, FiniteSets, TLC

\* ------------------------------------------------------------- bounds
\* Number of tick() calls explored.
MaxTicks == 2

\* ------------------------------------------------- program constants
\* null: no owner / no house (House.owner, Person.house).
null == 0
\* undefined: the value of a missing property or of a call without result.
undefined == [undefined |-> TRUE]
\* House.applyVacantDepreciation: minimum intrinsic value.
MinIntrinsicValue == 1000
\* AnalyticsHistory constructor: default maxDataPoints.
DefaultMaxDataPoints == 1000
\* House.calculateValue: default weight of the intrinsic value (0.7).
DefaultIntrinsicness == <<7, 10>>
\* Auction.auctionSingleHouse: a single bidder pays 75% of the bid.
SingleBidderFactor == <<3, 4>>
\* Market.initializeOccupancy: share of houses occupied at start (0.8).
InitialOccupancy == <<4, 5>>

\* ------------------------------------------------------------ inputs
\* Samples of MathUtils.generatePowerLawWealth (multiples of 4: 75% exact).
Wealths == {4000, 16000, 20000}
\* Samples of MathUtils.generateGaussian (multiples of 20^3: 5% exact).
HousePrices == {8000, 16000}
\* Configurations given to new Config(userConfig).  The factors not listed
\* in userConfig keep Config.DEFAULT_CONFIG.
DEFAULT_CONFIG ==
    [ num_houses          |-> 100,
      num_people          |-> 100,
      wealth_mean         |-> 300000,
      wealth_std          |-> 200000,
      house_price_mean    |-> 300000,
      house_price_std     |-> 150000,
      value_intrinsicness |-> <<7, 10>>,
      turnover_in         |-> 2,
      turnover_out        |-> 2,
      upgrade_threshold   |-> <<3, 2>>,
      n_auction_steps     |-> 3,
      vacant_depreciation |-> <<1, 20>>,
      simulation_speed    |-> 1000,
      starting_year       |-> 2025,
      canvas_width        |-> 1200 ]

UserConfigs ==
    { [ num_houses |-> 3, num_people |-> np, turnover_in |-> t[1],
        turnover_out |-> t[2], n_auction_steps |-> n ] :
          np \in {1, 2}, t \in {<<0, 2>>, <<1, 0>>, <<1, 1>>}, n \in {1, 2} }
    \cup
    { [ num_houses |-> 3, num_people |-> 1, turnover_in |-> 1,
        turnover_out |-> 1, n_auction_steps |-> 1,
        vacant_depreciation |-> r, value_intrinsicness |-> <<0, 1>> ] :
          r \in {<<0, 1>>, <<9, 10>>} }
    \cup
    { [ num_houses |-> 3, num_people |-> 3, turnover_in |-> 0,
        turnover_out |-> 2, n_auction_steps |-> 1 ] }
    \cup
    { [ num_houses |-> 3, num_people |-> 1, turnover_in |-> 1,
        turnover_out |-> 0, n_auction_steps |-> 2,
        vacant_depreciation |-> <<9, 10>> ] }

\* Largest population and the wealths (zero included) for which the Gini
\* coefficient is evaluated directly.
MaxGiniPeople == 3
GiniWealths == {0, 1, 4000, 20000}

\* ----------------------------------------------------------- helpers
Min(a, b) == IF a <= b THEN a ELSE b
Max(a, b) == IF a >= b THEN a ELSE b
Range(s) == { s[i] : i \in 1..Len(s) }
Includes(s, x) == \E i \in 1..Len(s) : s[i] = x
\* Math.ceil(a / b) for a >= 0, b > 0.
Ceil(a, b) == (a + b - 1) \div b

\* Array.prototype.filter with the predicate "element in keep".
FilterIn(s, keep) ==
    LET F[i \in 0..Len(s)] ==
          IF i = 0 THEN <<>>
          ELSE IF s[i] \in keep THEN Append(F[i - 1], s[i]) ELSE F[i - 1]
    IN  F[Len(s)]

\* Array.prototype.sort (stable) by ascending key[x]: insertion after the
\* last element whose key is not greater.
SortAscending(s, key) ==
    LET Ins(sorted, x) ==
          LET k == Cardinality({ i \in 1..Len(sorted) : key[sorted[i]] <= key[x] })
          IN  SubSeq(sorted, 1, k) \o <<x>> \o SubSeq(sorted, k + 1, Len(sorted))
        S[i \in 0..Len(s)] == IF i = 0 THEN <<>> ELSE Ins(S[i - 1], s[i])
    IN  S[Len(s)]

\* Array.prototype.sort (stable) by descending key[x].
SortDescending(s, key) ==
    LET Ins(sorted, x) ==
          LET k == Cardinality({ i \in 1..Len(sorted) : key[sorted[i]] >= key[x] })
          IN  SubSeq(sorted, 1, k) \o <<x>> \o SubSeq(sorted, k + 1, Len(sorted))
        S[i \in 0..Len(s)] == IF i = 0 THEN <<>> ELSE Ins(S[i - 1], s[i])
    IN  S[Len(s)]

\* ------------------------------------------------------------- state
VARIABLES
    config,              \* Market.config (fixed after construction)
    houses,              \* Market.houses: house id -> House fields
    persons,             \* every Person created: person id -> Person fields
    people,              \* Market.people: ids of the live persons, in order
    availableHouses,     \* Market.availableHouses: house ids, in order
    currentYear,         \* Market.currentYear
    tickCount,           \* Market.tickCount
    lastAuctionResults,  \* Market.lastAuctionResults (set: assigned or not)
    analyticsHistory,    \* AnalyticsHistory.data (of Market.analyticsHistory)
    maxDataPoints,       \* AnalyticsHistory.maxDataPoints
    returned,            \* value returned (or error thrown) by the last call
    lastCall,            \* the last call on the object under test (history)
    localStorage,        \* the browser's localStorage (undefined outside one)
    pc,                  \* position inside tick()
    auction,             \* the Auction object of the current batch
    allAuctionResults,   \* local of conductAuctions
    housesPerBatch,      \* local of conductAuctions
    batchNum,            \* local of conductAuctions
    tickLog,             \* observations of the running tick (history)
    simulation,          \* Simulation: isRunning, isPaused, intervalId
    timers               \* the browser's interval timers

vars == << config, houses, persons, people, availableHouses, currentYear,
           tickCount, lastAuctionResults, analyticsHistory, maxDataPoints,
           returned, lastCall, localStorage, pc, auction,
           allAuctionResults, housesPerBatch, batchNum, tickLog,
           simulation, timers >>

\* The table of interval timers of a page that has set none: next is the
\* id the next setInterval returns, active the timers not yet cleared.
NoTimers == [ next |-> 1, active |-> {} ]

\* The state of the Market apart from its AnalyticsHistory.
marketVars == << config, houses, persons, people, availableHouses,
                 currentYear, tickCount, lastAuctionResults, pc, auction,
                 allAuctionResults, housesPerBatch, batchNum, tickLog >>

HouseIds == 1..Len(houses)

\* ------------------------------------------------------ House, Person
\* A world is the pair of object tables the entity methods act upon.
World(h, p) == [houses |-> h, persons |-> p]

\* new House(intrinsicValue, initialPrice)
NewHouse(intrinsicValue, initialPrice) ==
    [ intrinsicValue |-> intrinsicValue, lastSellingPrice |-> initialPrice,
      owner |-> null, yearsSinceOwnership |-> 0 ]

\* new Person(wealth, null, yearEntered)
NewPerson(wealth, yearEntered) ==
    [ wealth |-> wealth, house |-> null, yearEntered |-> yearEntered ]

\* House.calculateValue(valueIntrinsicness), times the denominator of the
\* weight: vi * intrinsicValue + (1 - vi) * lastSellingPrice.
CalculateValueTimes(house, vi) ==
    vi[1] * house.intrinsicValue + (vi[2] - vi[1]) * house.lastSellingPrice

\* House.calculateValue() with the default weight, times its denominator.
CalculateValue(house) == CalculateValueTimes(house, DefaultIntrinsicness)

\* House.isAvailable
IsAvailable(house) == house.owner = null

\* Person.canAfford: wealth >= house.calculateValue()
CanAfford(w, p, h) ==
    w.persons[p].wealth * DefaultIntrinsicness[2] >= CalculateValue(w.houses[h])

\* Variant of shouldBid without the upgrade threshold.
ShouldBidIgnoringThreshold(w, p, h, upgradeThreshold) ==
    CanAfford(w, p, h)

\* Person.shouldBid
ShouldBid(w, p, h, upgradeThreshold) ==
    IF w.persons[p].house = null
    THEN CanAfford(w, p, h)
    ELSE LET currentValue == CalculateValue(w.houses[w.persons[p].house])
             targetValue  == CalculateValue(w.houses[h])
         IN  /\ CanAfford(w, p, h)
             /\ upgradeThreshold[2] * targetValue >= upgradeThreshold[1] * currentValue

\* Person.getBidAmount
GetBidAmount(w, p) == w.persons[p].wealth

\* Variant of sellHouse that leaves house.owner set.
SellHouseKeepingOwner(w, p) ==
    IF w.persons[p].house # null
    THEN LET h == w.persons[p].house
         IN  World([w.houses EXCEPT ![h].yearsSinceOwnership = 0],
                   [w.persons EXCEPT ![p].house = null])
    ELSE w

\* Variant of sellHouse that leaves yearsSinceOwnership as it is.
SellHouseKeepingYears(w, p) ==
    IF w.persons[p].house # null
    THEN LET h == w.persons[p].house
         IN  World([w.houses EXCEPT ![h].owner = null],
                   [w.persons EXCEPT ![p].house = null])
    ELSE w

\* Person.sellHouse
SellHouse(w, p) ==
    IF w.persons[p].house # null
    THEN LET h == w.persons[p].house
         IN  World([w.houses EXCEPT ![h].owner = null,
                                    ![h].yearsSinceOwnership = 0],
                   [w.persons EXCEPT ![p].house = null])
    ELSE w

\* Variant of buyHouse in which the buyer's wealth is reduced by the price.
BuyHouseDeductingWealth(w, p, h, price) ==
    LET w1 == IF w.persons[p].house # null THEN SellHouse(w, p) ELSE w
    IN  World([w1.houses EXCEPT ![h].owner = p,
                                ![h].lastSellingPrice = price,
                                ![h].yearsSinceOwnership = 0],
              [w1.persons EXCEPT ![p].house = h, ![p].wealth = @ - price])

\* Person.buyHouse
BuyHouse(w, p, h, price) ==
    LET w1 == IF w.persons[p].house # null THEN SellHouse(w, p) ELSE w
    IN  World([w1.houses EXCEPT ![h].owner = p,
                                ![h].lastSellingPrice = price,
                                ![h].yearsSinceOwnership = 0],
              [w1.persons EXCEPT ![p].house = h])

\* Variant of House.applyVacantDepreciation without the minimum.
HouseDepreciationWithoutFloor(house, rate) ==
    IF IsAvailable(house) /\ rate[1] > 0
    THEN [house EXCEPT !.intrinsicValue =
            (house.intrinsicValue * (rate[2] - rate[1])) \div rate[2]]
    ELSE house

\* Variant of applyVacantDepreciation that multiplies by (1 + rate).
HouseApplyVacantAppreciation(house, rate) ==
    IF IsAvailable(house) /\ rate[1] > 0
    THEN [house EXCEPT !.intrinsicValue =
            Max((house.intrinsicValue * (rate[2] + rate[1])) \div rate[2],
                MinIntrinsicValue)]
    ELSE house

\* House.applyVacantDepreciation
HouseApplyVacantDepreciation(house, rate) ==
    IF IsAvailable(house) /\ rate[1] > 0
    THEN [house EXCEPT !.intrinsicValue =
            Max((house.intrinsicValue * (rate[2] - rate[1])) \div rate[2],
                MinIntrinsicValue)]
    ELSE house

\* ------------------------------------------------------------ Market
\* Variant of initializeOccupancy that pairs persons and houses in the order
\* of their creation, without sorting.
InitializeOccupancyUnsorted(w, people0, available0) ==
    LET n == Len(w.houses)
        count == Min((n * InitialOccupancy[1]) \div InitialOccupancy[2],
                     Len(people0))
        Loop[i \in 0..count] ==
            IF i = 0 THEN w
            ELSE BuyHouse(Loop[i - 1], people0[i], i,
                          w.houses[i].intrinsicValue)
    IN  [ world |-> Loop[count],
          availableHouses |-> FilterIn(available0, Range(available0) \ (1..count)) ]

\* ------------------------------------------------------------ Market
\* Market.initializeOccupancy: the world and the available list after it.
InitializeOccupancy(w, people0, available0) ==
    LET n == Len(w.houses)
        numHousesToOccupy == (n * InitialOccupancy[1]) \div InitialOccupancy[2]
        houseKey == [h \in 1..n |-> CalculateValue(w.houses[h])]
        personKey == [p \in 1..Len(w.persons) |-> w.persons[p].wealth]
        sortedHouses == SortAscending([h \in 1..n |-> h], houseKey)
        sortedPeople == SortAscending(people0, personKey)
        count == Min(numHousesToOccupy, Len(sortedPeople))
        \* price: house.calculateValue()
        Price(x, h) == CalculateValue(x.houses[h]) \div DefaultIntrinsicness[2]
        Loop[i \in 0..count] ==
            IF i = 0 THEN w
            ELSE BuyHouse(Loop[i - 1], sortedPeople[i], sortedHouses[i],
                          Price(Loop[i - 1], sortedHouses[i]))
    IN  [ world |-> Loop[count],
          availableHouses |->
            FilterIn(available0,
                     Range(available0) \ { sortedHouses[i] : i \in 1..count }) ]

\* new Market(config): Market.constructor and Market.initialize with the
\* sampled house values ivs and wealths ws.
CreateMarket(cfg, ivs, ws) ==
    LET w0 == World([h \in 1..cfg.num_houses |-> NewHouse(ivs[h], ivs[h])],
                    [p \in 1..cfg.num_people |->
                        NewPerson(ws[p], cfg.starting_year)])
        occ == InitializeOccupancy(w0, [p \in 1..cfg.num_people |-> p],
                                   [h \in 1..cfg.num_houses |-> h])
    IN  [ houses |-> occ.world.houses,
          persons |-> occ.world.persons,
          people |-> [p \in 1..cfg.num_people |-> p],
          availableHouses |-> occ.availableHouses,
          currentYear |-> cfg.starting_year,
          tickLog |-> [ peopleBefore |-> cfg.num_people,
                        housesBefore |-> occ.world.houses,
                        exiting |-> <<>>,
                        entered |-> {},
                        transferred |-> {},
                        vacantRun |-> [h \in 1..cfg.num_houses |->
                                         [k |-> 0, base |-> ivs[h]]],
                        availableAtClearing |-> <<>>,
                        fromUpgrades |-> {} ] ]

\* new Market(config) for the Config of a sampled userConfig.
NewMarket ==
    \E user \in UserConfigs :
    \E ivs \in [1..user.num_houses -> HousePrices],
       ws \in [1..user.num_people -> Wealths] :
        LET cfg == [ k \in (DOMAIN DEFAULT_CONFIG) \cup (DOMAIN user) |->
                       IF k \in DOMAIN user THEN user[k] ELSE DEFAULT_CONFIG[k] ]
            market == CreateMarket(cfg, ivs, ws)
        IN  /\ config = cfg
            /\ houses = market.houses
            /\ persons = market.persons
            /\ people = market.people
            /\ availableHouses = market.availableHouses
            /\ currentYear = market.currentYear
            /\ tickCount = 0
            /\ lastAuctionResults = [set |-> FALSE, results |-> <<>>]
            /\ pc = "idle"
            /\ auction = [ houses |-> <<>>, eligibleBidders |-> <<>>,
                           results |-> <<>>, housesFromUpgrades |-> <<>> ]
            /\ allAuctionResults = <<>>
            /\ housesPerBatch = 0
            /\ batchNum = 0
            /\ tickLog = market.tickLog

\* new Market(config): the market above with a new AnalyticsHistory().
Init ==
    /\ NewMarket
    /\ analyticsHistory = <<>>
    /\ maxDataPoints = DefaultMaxDataPoints
    /\ returned = undefined
    /\ lastCall = [op |-> "new Market"]
    /\ localStorage = undefined
    /\ simulation = undefined
    /\ timers = NoTimers

\* Market.tick, first part: tickCount++ and the aging of every house.
TickBegin ==
    /\ pc = "idle"
    /\ tickCount < MaxTicks
    /\ tickCount' = tickCount + 1
    /\ houses' = [h \in HouseIds |->
                    [houses[h] EXCEPT !.yearsSinceOwnership = @ + 1]]
    /\ pc' = "depreciate"
    /\ tickLog' = [tickLog EXCEPT !.peopleBefore = Len(people),
                                  !.housesBefore = houses,
                                  !.exiting = <<>>,
                                  !.entered = {},
                                  !.transferred = {}]
    /\ UNCHANGED << config, maxDataPoints, returned, lastCall, localStorage, simulation, timers, persons, people, availableHouses, currentYear,
                    lastAuctionResults, analyticsHistory, auction,
                    allAuctionResults, housesPerBatch, batchNum >>

\* Variant of applyVacantDepreciation that depreciates every house, owned or
\* not.
ApplyDepreciationToEveryHouse ==
    /\ pc = "depreciate"
    /\ houses' = [h \in HouseIds |->
                    HouseApplyVacantDepreciation(
                      [houses[h] EXCEPT !.owner = null],
                      config.vacant_depreciation)]
    /\ tickLog' = [tickLog EXCEPT !.vacantRun =
                      [h \in HouseIds |->
                         IF IsAvailable(houses[h])
                         THEN [@[h] EXCEPT !.k = @ + 1]
                         ELSE [k |-> 0, base |-> houses[h].intrinsicValue]]]
    /\ pc' = "exits"
    /\ UNCHANGED << config, maxDataPoints, returned, lastCall, localStorage, simulation, timers, persons, people, availableHouses, currentYear,
                    tickCount, lastAuctionResults, analyticsHistory, auction,
                    allAuctionResults, housesPerBatch, batchNum >>

\* Market.applyVacantDepreciation (second step of tick).
ApplyVacantDepreciation ==
    /\ pc = "depreciate"
    /\ LET depreciationRate == config.vacant_depreciation
       IN  houses' =
             IF depreciationRate[1] <= 0
             THEN houses
             ELSE [h \in HouseIds |->
                     IF IsAvailable(houses[h])
                     THEN HouseApplyVacantDepreciation(houses[h], depreciationRate)
                     ELSE houses[h]]
    /\ tickLog' = [tickLog EXCEPT !.vacantRun =
                      [h \in HouseIds |->
                         IF IsAvailable(houses[h])
                         THEN [@[h] EXCEPT !.k = @ + 1]
                         ELSE [k |-> 0, base |-> houses[h].intrinsicValue]]]
    /\ pc' = "exits"
    /\ UNCHANGED << config, maxDataPoints, returned, lastCall, localStorage, simulation, timers, persons, people, availableHouses, currentYear,
                    tickCount, lastAuctionResults, analyticsHistory, auction,
                    allAuctionResults, housesPerBatch, batchNum >>

\* A selection that returns nothing when the array holds fewer than count
\* elements, instead of the whole array.
SelectOnlyWhenEnough(array, count) ==
    IF count > Len(array)
    THEN { << >> }
    ELSE { s \in [1..count -> Range(array)] :
             \A i, j \in 1..count : i # j => s[i] # s[j] }

\* MathUtils.selectRandomElements: every array it can return.  The whole
\* array when count >= length, else the first count elements of a shuffle:
\* any count distinct elements in any order.
SelectRandomElements(array, count) ==
    IF count >= Len(array)
    THEN { array }
    ELSE { s \in [1..count -> Range(array)] :
             \A i, j \in 1..count : i # j => s[i] # s[j] }

\* Variant of processExits that does not push the released houses.
ExitsOfWithoutRelisting(w, available, exitingPeople) ==
    LET Loop[i \in 0..Len(exitingPeople)] ==
          IF i = 0 THEN [world |-> w, availableHouses |-> available]
          ELSE [world |-> SellHouse(Loop[i - 1].world, exitingPeople[i]),
                availableHouses |-> available]
    IN  Loop[Len(exitingPeople)]

\* Market.processExits, for the selection exitingPeople.
ExitsOf(w, available, exitingPeople) ==
    LET Loop[i \in 0..Len(exitingPeople)] ==
          IF i = 0 THEN [world |-> w, availableHouses |-> available]
          ELSE LET prev == Loop[i - 1]
                   person == exitingPeople[i]
                   house == prev.world.persons[person].house
               IN  IF house # null
                   THEN [world |-> SellHouse(prev.world, person),
                         availableHouses |-> Append(prev.availableHouses, house)]
                   ELSE prev
    IN  Loop[Len(exitingPeople)]

\* Market.processExits (third step of tick).
ProcessExits ==
    /\ pc = "exits"
    /\ LET turnoverOut == config.turnover_out
       IN  IF turnoverOut = 0
           THEN UNCHANGED << houses, persons, people, availableHouses, tickLog >>
           ELSE \E exitingPeople \in SelectRandomElements(people, turnoverOut) :
                  LET out == ExitsOf(World(houses, persons), availableHouses,
                                     exitingPeople)
                  IN  /\ houses' = out.world.houses
                      /\ persons' = out.world.persons
                      /\ availableHouses' = out.availableHouses
                      /\ people' = FilterIn(people, Range(people) \ Range(exitingPeople))
                      /\ tickLog' = [tickLog EXCEPT
                            !.exiting = exitingPeople,
                            !.transferred =
                               { persons[exitingPeople[i]].house :
                                   i \in 1..Len(exitingPeople) } \ {null}]
    /\ pc' = "entries"
    /\ UNCHANGED << config, maxDataPoints, returned, lastCall, localStorage, simulation, timers, currentYear, tickCount, lastAuctionResults,
                    analyticsHistory, auction, allAuctionResults,
                    housesPerBatch, batchNum >>

\* Variant of processEntries that creates the persons without pushing them
\* onto the list of people.
ProcessEntriesUnlisted ==
    /\ pc = "entries"
    /\ \E ws \in [1..config.turnover_in -> Wealths] :
         /\ persons' = [i \in 1..(Len(persons) + config.turnover_in) |->
                          IF i <= Len(persons) THEN persons[i]
                          ELSE NewPerson(ws[i - Len(persons)], currentYear)]
         /\ tickLog' = [tickLog EXCEPT !.entered =
                          (Len(persons) + 1)..(Len(persons) + config.turnover_in)]
    /\ pc' = "auctions"
    /\ UNCHANGED << config, maxDataPoints, returned, lastCall, localStorage, simulation, timers, houses, people, availableHouses, currentYear,
                    tickCount, lastAuctionResults, analyticsHistory, auction,
                    allAuctionResults, housesPerBatch, batchNum >>

\* Market.processEntries (fourth step of tick).
ProcessEntries ==
    /\ pc = "entries"
    /\ LET turnoverIn == config.turnover_in
       IN  IF turnoverIn = 0
           THEN UNCHANGED << persons, people, tickLog >>
           ELSE \E ws \in [1..turnoverIn -> Wealths] :
                  /\ persons' = [i \in 1..(Len(persons) + turnoverIn) |->
                                    IF i <= Len(persons) THEN persons[i]
                                    ELSE NewPerson(ws[i - Len(persons)], currentYear)]
                  /\ people' = [i \in 1..(Len(people) + turnoverIn) |->
                                   IF i <= Len(people) THEN people[i]
                                   ELSE Len(persons) + (i - Len(people))]
                  /\ tickLog' = [tickLog EXCEPT !.entered =
                                    (Len(persons) + 1)..(Len(persons) + turnoverIn)]
    /\ pc' = "auctions"
    /\ UNCHANGED << config, maxDataPoints, returned, lastCall, localStorage, simulation, timers, houses, availableHouses, currentYear, tickCount,
                    lastAuctionResults, analyticsHistory, auction,
                    allAuctionResults, housesPerBatch, batchNum >>

\* ----------------------------------------------------------- Auction
\* The result for a house nobody bids on (the code's record has no allBids
\* field; the empty list stands for it).
NoBidResult(h) ==
    [ house |-> h, winner |-> null, winningBid |-> 0, secondPrice |-> 0,
      bidderCount |-> 0, allBids |-> <<>> ]

\* Variant of auctionSingleHouse in which the winner pays the winning bid.
AuctionSingleHouseFirstPrice(w, eligibleBidders, h, valueIntrinsicness, upgradeThreshold, alreadyWon) ==
    LET bidders == FilterIn(eligibleBidders,
                     { p \in Range(eligibleBidders) :
                         p \notin alreadyWon /\ ShouldBid(w, p, h, upgradeThreshold) })
        amount == [p \in Range(bidders) |-> GetBidAmount(w, p)]
        bids == SortDescending(bidders, amount)
    IN  IF Len(bidders) = 0
        THEN NoBidResult(h)
        ELSE [ house |-> h, winner |-> bids[1], winningBid |-> amount[bids[1]],
               secondPrice |-> amount[bids[1]], bidderCount |-> Len(bidders),
               allBids |-> bids ]

\* Auction.auctionSingleHouse.  valueIntrinsicness only feeds houseValue,
\* which the code prints and does not use.
AuctionSingleHouse(w, eligibleBidders, h, valueIntrinsicness, upgradeThreshold, alreadyWon) ==
    LET bidders == FilterIn(eligibleBidders,
                     { p \in Range(eligibleBidders) :
                         p \notin alreadyWon /\ ShouldBid(w, p, h, upgradeThreshold) })
        amount == [p \in Range(bidders) |-> GetBidAmount(w, p)]
        bids == SortDescending(bidders, amount)
        winner == bids[1]
        winningBid == amount[bids[1]]
        priceToPayGeneric ==
            IF Len(bids) = 1
            THEN (winningBid * SingleBidderFactor[1]) \div SingleBidderFactor[2]
            ELSE amount[bids[2]]
    IN  IF Len(bidders) = 0
        THEN NoBidResult(h)
        ELSE [ house |-> h, winner |-> winner, winningBid |-> winningBid,
               secondPrice |-> priceToPayGeneric, bidderCount |-> Len(bidders),
               allBids |-> bids ]

\* Variant of conductVickreyAuction that never fills alreadyWon.
ConductVickreyAuctionNoExclusion(w, batch, eligibleBidders, valueIntrinsicness, upgradeThreshold) ==
    [ i \in 1..Len(batch) |->
        AuctionSingleHouse(w, eligibleBidders, batch[i], valueIntrinsicness,
                           upgradeThreshold, {}) ]

\* Auction.conductVickreyAuction: the results of the batch, in order.
ConductVickreyAuction(w, batch, eligibleBidders, valueIntrinsicness, upgradeThreshold) ==
    LET Loop[i \in 0..Len(batch)] ==
          IF i = 0 THEN [results |-> <<>>, alreadyWon |-> {}]
          ELSE LET prev == Loop[i - 1]
                   result == AuctionSingleHouse(w, eligibleBidders, batch[i],
                               valueIntrinsicness, upgradeThreshold,
                               prev.alreadyWon)
               IN  [ results |-> Append(prev.results, result),
                     alreadyWon |-> IF result.winner # null
                                    THEN prev.alreadyWon \cup {result.winner}
                                    ELSE prev.alreadyWon ]
    IN  Loop[Len(batch)].results

\* Variant of executeTransactions in which the buyer pays the winning bid.
ExecuteTransactionsAtWinningBid(w, results) ==
    LET Loop[i \in 0..Len(results)] ==
          IF i = 0 THEN [world |-> w, housesFromUpgrades |-> <<>>]
          ELSE LET prev == Loop[i - 1]
                   result == results[i]
               IN  IF result.winner # null
                   THEN [ world |-> BuyHouse(prev.world, result.winner,
                                             result.house, result.winningBid),
                          housesFromUpgrades |->
                            IF prev.world.persons[result.winner].house # null
                            THEN Append(prev.housesFromUpgrades,
                                        prev.world.persons[result.winner].house)
                            ELSE prev.housesFromUpgrades ]
                   ELSE prev
    IN  Loop[Len(results)]

\* Auction.executeTransactions: the world and housesFromUpgrades after it.
ExecuteTransactionsOf(w, results) ==
    LET Loop[i \in 0..Len(results)] ==
          IF i = 0 THEN [world |-> w, housesFromUpgrades |-> <<>>]
          ELSE LET prev == Loop[i - 1]
                   result == results[i]
               IN  IF result.winner # null
                   THEN [ world |-> BuyHouse(prev.world, result.winner,
                                             result.house, result.secondPrice),
                          housesFromUpgrades |->
                            IF prev.world.persons[result.winner].house # null
                            THEN Append(prev.housesFromUpgrades,
                                        prev.world.persons[result.winner].house)
                            ELSE prev.housesFromUpgrades ]
                   ELSE prev
    IN  Loop[Len(results)]

\* Variant of getSuccessfulSales that returns every result.
GetEverySale(results) == results

\* Auction.getSuccessfulSales
GetSuccessfulSales(results) ==
    SelectSeq(results, LAMBDA r : r.winner # null)

\* ------------------------------------------- Market.conductAuctions
\* Entry of conductAuctions (fifth step of tick): the early return when no
\* house is available, else the set-up of the batch loop.
ConductAuctionsBegin ==
    /\ pc = "auctions"
    /\ IF Len(availableHouses) = 0
       THEN /\ pc' = "record"
            /\ UNCHANGED << allAuctionResults, housesPerBatch, batchNum >>
       ELSE /\ allAuctionResults' = <<>>
            /\ housesPerBatch' =
                 Max(1, Ceil(Len(availableHouses), config.n_auction_steps))
            /\ batchNum' = 0
            /\ pc' = "batch"
    /\ tickLog' = [tickLog EXCEPT !.availableAtClearing = availableHouses,
                                  !.fromUpgrades = {}]
    /\ UNCHANGED << config, maxDataPoints, returned, lastCall, localStorage, simulation, timers, houses, persons, people, availableHouses,
                    currentYear, tickCount, lastAuctionResults,
                    analyticsHistory, auction >>

\* Loop body, first half: new Auction(batchHouses, people) and
\* conductVickreyAuction.
ConductBatch ==
    /\ pc = "batch"
    /\ batchNum < config.n_auction_steps /\ Len(availableHouses) > 0
    /\ LET batchHouses == SubSeq(availableHouses, 1,
                                 Min(housesPerBatch, Len(availableHouses)))
       IN  auction' =
             [ houses |-> batchHouses,
               eligibleBidders |-> people,
               results |-> ConductVickreyAuction(World(houses, persons),
                              batchHouses, people, config.value_intrinsicness,
                              config.upgrade_threshold),
               housesFromUpgrades |-> <<>> ]
    /\ pc' = "execute"
    /\ UNCHANGED << config, maxDataPoints, returned, lastCall, localStorage, simulation, timers, houses, persons, people, availableHouses,
                    currentYear, tickCount, lastAuctionResults,
                    analyticsHistory, allAuctionResults, housesPerBatch,
                    batchNum, tickLog >>

\* Variant of the loop body that leaves the sold houses on the available
\* list.
ExecuteTransactionsKeepingSold ==
    /\ pc = "execute"
    /\ LET done == ExecuteTransactionsOf(World(houses, persons), auction.results)
           soldHouses == { r.house : r \in Range(GetSuccessfulSales(auction.results)) }
       IN  /\ houses' = done.world.houses
           /\ persons' = done.world.persons
           /\ auction' = [auction EXCEPT !.housesFromUpgrades = done.housesFromUpgrades]
           /\ availableHouses' = availableHouses
           /\ tickLog' = [tickLog EXCEPT
                 !.fromUpgrades = @ \cup Range(done.housesFromUpgrades),
                 !.transferred = @ \cup soldHouses
                                   \cup Range(done.housesFromUpgrades)]
    /\ allAuctionResults' = allAuctionResults \o auction.results
    /\ batchNum' = batchNum + 1
    /\ pc' = "batch"
    /\ UNCHANGED << config, maxDataPoints, returned, lastCall, localStorage, simulation, timers, people, currentYear, tickCount,
                    lastAuctionResults, analyticsHistory, housesPerBatch >>

\* Variant of the loop body that puts the houses released by upgrades back
\* on the available list at once.
ExecuteTransactionsRelisting ==
    /\ pc = "execute"
    /\ LET done == ExecuteTransactionsOf(World(houses, persons), auction.results)
           soldHouses == { r.house : r \in Range(GetSuccessfulSales(auction.results)) }
       IN  /\ houses' = done.world.houses
           /\ persons' = done.world.persons
           /\ auction' = [auction EXCEPT !.housesFromUpgrades = done.housesFromUpgrades]
           /\ availableHouses' =
                FilterIn(availableHouses, Range(availableHouses) \ soldHouses)
                  \o done.housesFromUpgrades
           /\ tickLog' = [tickLog EXCEPT
                 !.fromUpgrades = @ \cup Range(done.housesFromUpgrades),
                 !.transferred = @ \cup soldHouses
                                   \cup Range(done.housesFromUpgrades)]
    /\ allAuctionResults' = allAuctionResults \o auction.results
    /\ batchNum' = batchNum + 1
    /\ pc' = "batch"
    /\ UNCHANGED << config, maxDataPoints, returned, lastCall, localStorage, simulation, timers, people, currentYear, tickCount,
                    lastAuctionResults, analyticsHistory, housesPerBatch >>

\* Loop body, second half: executeTransactions, the collection of the
\* results, the removal of the sold houses and batchNum++.
ExecuteTransactions ==
    /\ pc = "execute"
    /\ LET done == ExecuteTransactionsOf(World(houses, persons), auction.results)
           soldHouses == { r.house : r \in Range(GetSuccessfulSales(auction.results)) }
       IN  /\ houses' = done.world.houses
           /\ persons' = done.world.persons
           /\ auction' = [auction EXCEPT !.housesFromUpgrades = done.housesFromUpgrades]
           /\ availableHouses' =
                FilterIn(availableHouses, Range(availableHouses) \ soldHouses)
           /\ tickLog' = [tickLog EXCEPT
                 !.fromUpgrades = @ \cup Range(done.housesFromUpgrades),
                 !.transferred = @ \cup soldHouses
                                   \cup Range(done.housesFromUpgrades)]
    /\ allAuctionResults' = allAuctionResults \o auction.results
    /\ batchNum' = batchNum + 1
    /\ pc' = "batch"
    /\ UNCHANGED << config, maxDataPoints, returned, lastCall, localStorage, simulation, timers, people, currentYear, tickCount,
                    lastAuctionResults, analyticsHistory, housesPerBatch >>

\* Exit of the batch loop: lastAuctionResults = allAuctionResults.
ConductAuctionsEnd ==
    /\ pc = "batch"
    /\ ~ (batchNum < config.n_auction_steps /\ Len(availableHouses) > 0)
    /\ lastAuctionResults' = [set |-> TRUE, results |-> allAuctionResults]
    /\ pc' = "record"
    /\ UNCHANGED << config, maxDataPoints, returned, lastCall, localStorage, simulation, timers, houses, persons, people, availableHouses,
                    currentYear, tickCount, analyticsHistory, auction,
                    allAuctionResults, housesPerBatch, batchNum, tickLog >>

\* ---------------------------------------------------------- snapshot
\* A real number is a pair <<numerator, denominator>>; a division by zero
\* (NaN or Infinity in the code) has denominator 0.
Zero == <<0, 1>>
\* reduce((a, b) => a + b, 0)
SumSeq(s) ==
    LET F[i \in 0..Len(s)] == IF i = 0 THEN 0 ELSE F[i - 1] + s[i]
    IN  F[Len(s)]

\* Variant of the Gini coefficient without the guard for fewer than two
\* persons or a total wealth of zero.
GiniWithoutGuard(wealths) ==
    LET n == Len(wealths)
        totalWealth == SumSeq(wealths)
        Abs(x) == IF x < 0 THEN -x ELSE x
        giniSum == SumSeq([k \in 1..(n * n) |->
                      Abs(wealths[((k - 1) \div n) + 1] - wealths[((k - 1) % n) + 1])])
    IN  <<giniSum * n, 2 * n * n * totalWealth>>

\* getMarketStats: the Gini coefficient of the wealths (any order).
GiniCoefficient(wealths) ==
    LET n == Len(wealths)
        totalWealth == SumSeq(wealths)
        Abs(x) == IF x < 0 THEN -x ELSE x
        giniSum == SumSeq([k \in 1..(n * n) |->
                      Abs(wealths[((k - 1) \div n) + 1] - wealths[((k - 1) % n) + 1])])
    IN  IF n > 1 /\ totalWealth > 0
        THEN <<giniSum * n, 2 * n * n * totalWealth>>
        ELSE Zero

\* Variant of the wealth concentration without the guard for a total
\* wealth of zero.
WealthConcentrationWithoutGuard(wealths) ==
    LET totalWealth == SumSeq(wealths)
        top10PercentCount == Max(1, Len(wealths) \div 10)
        top10PercentWealth ==
            SumSeq(SubSeq(wealths, 1, Min(top10PercentCount, Len(wealths))))
    IN  <<top10PercentWealth, totalWealth>>

\* getMarketStats: the share of the total held by the top 10%, for the
\* wealths in descending order.
WealthConcentration(wealths) ==
    LET totalWealth == SumSeq(wealths)
        top10PercentCount == Max(1, Len(wealths) \div 10)
        top10PercentWealth ==
            SumSeq(SubSeq(wealths, 1, Min(top10PercentCount, Len(wealths))))
    IN  IF totalWealth > 0 THEN <<top10PercentWealth, totalWealth>> ELSE Zero

\* getMarketStats: houses with yearsSinceOwnership <= 1 and an owner.
RecentlyTraded ==
    { h \in HouseIds : houses[h].yearsSinceOwnership <= 1 /\ houses[h].owner # null }

\* Market.getMarketStats.  House values are kept times the denominator of
\* the default intrinsicness; the auction summary is null when its field
\* present is FALSE.
GetMarketStats ==
    LET n == Len(people)
        byWealth == SortDescending(people, [p \in Range(people) |-> persons[p].wealth])
        wealths == [i \in 1..n |-> persons[byWealth[i]].wealth]
        totalWealth == SumSeq(wealths)
        nh == Len(houses)
        d == DefaultIntrinsicness[2]
        byValue == SortDescending([h \in 1..nh |-> h],
                                  [h \in 1..nh |-> CalculateValue(houses[h])])
        houseValues == [i \in 1..nh |-> CalculateValue(houses[byValue[i]])]
        totalHouseValue == SumSeq(houseValues)
        occupied == Cardinality({ h \in HouseIds : houses[h].owner # null })
        sales == SelectSeq(lastAuctionResults.results, LAMBDA r : r.winner # null)
    IN  [ currentYear     |-> currentYear,
          tickCount       |-> tickCount,
          totalPeople     |-> n,
          housedPeople    |-> Cardinality({ i \in 1..n :
                                              persons[people[i]].house # null }),
          houselessPeople |-> Cardinality({ i \in 1..n :
                                              persons[people[i]].house = null }),
          totalHouses     |-> nh,
          occupiedHouses  |-> occupied,
          availableHouses |-> Len(availableHouses),
          averageWealth   |-> IF n > 0 THEN <<totalWealth, n>> ELSE Zero,
          medianWealth    |-> IF n > 0 THEN wealths[(n \div 2) + 1] ELSE 0,
          wealthRange     |-> IF n > 0 THEN wealths[1] - wealths[n] ELSE 0,
          giniCoefficient |-> GiniCoefficient(wealths),
          wealthConcentration |-> WealthConcentration(wealths),
          averageHouseValue |-> IF nh > 0 THEN <<totalHouseValue, d * nh>> ELSE Zero,
          medianHouseValue  |-> IF nh > 0 THEN <<houseValues[(nh \div 2) + 1], d>>
                                ELSE Zero,
          houseValueRange   |-> IF nh > 0 THEN <<houseValues[1] - houseValues[nh], d>>
                                ELSE Zero,
          marketVelocity  |-> Cardinality(RecentlyTraded),
          occupancyRate   |-> IF nh > 0 THEN <<occupied, nh>> ELSE Zero,
          affordabilityRatio |->
              IF totalWealth > 0 /\ n > 0
              THEN <<totalHouseValue * n, d * nh * totalWealth>>
              ELSE Zero,
          lastAuctionResults |->
              IF lastAuctionResults.set
              THEN [ present         |-> TRUE,
                     totalAuctioned  |-> Len(lastAuctionResults.results),
                     successfulSales |-> Len(sales),
                     averagePrice    |->
                         IF Len(lastAuctionResults.results) > 0
                         THEN <<SumSeq([i \in 1..Len(sales) |-> sales[i].secondPrice]),
                                Max(1, Len(sales))>>
                         ELSE Zero ]
              ELSE [ present |-> FALSE ] ]

\* The fields of a snapshot that hold a quotient (a pair); the others hold
\* an integer.
RatioFields ==
    { "housingRate", "occupancyRate", "averageWealth", "giniCoefficient",
      "wealthConcentration", "averageHouseValue", "medianHouseValue",
      "houseValueRange", "affordabilityRatio", "auctionSuccessRate",
      "averageAuctionPrice" }

\* The snapshot recordSnapshot builds from marketStats (without the
\* timestamp, which is the wall clock).
SnapshotOf(marketStats) ==
    [ year |-> marketStats.currentYear,
      tick |-> marketStats.tickCount,
      totalPeople |-> marketStats.totalPeople,
      housedPeople |-> marketStats.housedPeople,
      houselessPeople |-> marketStats.houselessPeople,
      housingRate |-> IF marketStats.totalPeople > 0
                      THEN <<marketStats.housedPeople, marketStats.totalPeople>>
                      ELSE Zero,
      totalHouses |-> marketStats.totalHouses,
      occupiedHouses |-> marketStats.occupiedHouses,
      availableHouses |-> marketStats.availableHouses,
      occupancyRate |-> marketStats.occupancyRate,
      averageWealth |-> marketStats.averageWealth,
      medianWealth |-> marketStats.medianWealth,
      wealthRange |-> marketStats.wealthRange,
      giniCoefficient |-> marketStats.giniCoefficient,
      wealthConcentration |-> marketStats.wealthConcentration,
      averageHouseValue |-> marketStats.averageHouseValue,
      medianHouseValue |-> marketStats.medianHouseValue,
      houseValueRange |-> marketStats.houseValueRange,
      affordabilityRatio |-> marketStats.affordabilityRatio,
      marketVelocity |-> marketStats.marketVelocity,
      auctionSuccessRate |->
          IF marketStats.lastAuctionResults.present
          THEN <<marketStats.lastAuctionResults.successfulSales,
                 Max(1, marketStats.lastAuctionResults.totalAuctioned)>>
          ELSE Zero,
      averageAuctionPrice |->
          IF marketStats.lastAuctionResults.present
          THEN marketStats.lastAuctionResults.averagePrice
          ELSE Zero ]

\* Variant of recordSnapshot that keeps only the newest snapshot.
RecordSnapshotKeepingLatest(data, marketStats) ==
    << SnapshotOf(marketStats) >>

\* AnalyticsHistory.recordSnapshot: push, then drop the oldest above the cap.
RecordSnapshot(data, marketStats) ==
    LET pushed == Append(data, SnapshotOf(marketStats))
    IN  IF Len(pushed) > maxDataPoints THEN Tail(pushed) ELSE pushed

\* Market.tick, last part: recordSnapshot(getMarketStats()), currentYear++.
TickEnd ==
    /\ pc = "record"
    /\ analyticsHistory' = RecordSnapshot(analyticsHistory, GetMarketStats)
    /\ currentYear' = currentYear + 1
    /\ pc' = "idle"
    /\ UNCHANGED << config, maxDataPoints, returned, lastCall, localStorage, simulation, timers, houses, persons, people, availableHouses,
                    tickCount, lastAuctionResults, auction, allAuctionResults,
                    housesPerBatch, batchNum, tickLog >>

Next ==
    \/ TickBegin
    \/ ApplyVacantDepreciation
    \/ ProcessExits
    \/ ProcessEntries
    \/ ConductAuctionsBegin
    \/ ConductBatch
    \/ ExecuteTransactions
    \/ ConductAuctionsEnd
    \/ TickEnd

Spec == Init /\ [][Next]_vars

\* ---------------------------------------------------- AnalyticsHistory
\* Largest capacity given to new AnalyticsHistory(maxDataPoints).
MaxCapacity == 2
\* Largest number of recordSnapshot calls on one history.
MaxRecords == 2

\* A JSON document: what a JSON text denotes.
JsonNull == [t |-> "null"]
JsonNumber(v) == [t |-> "number", v |-> v]
JsonString(v) == [t |-> "string", v |-> v]
JsonArray(a) == [t |-> "array", a |-> a]
JsonObject(o) == [t |-> "object", o |-> o]
\* A text is the JSON text of a document, or no JSON at all.
JsonText(doc) == [valid |-> TRUE, doc |-> doc]
NotJson == [valid |-> FALSE, text |-> "invalid json"]

\* JavaScript values that are not objects, as elements of the data array.
JsNumber(v) == [jsNumber |-> v]
JsNull == [jsNull |-> TRUE]
\* null as the value of a quotient field.
NullField == << >>
IsFinite(q) == Len(q) = 2 /\ q[2] # 0
IsObject(e) == (DOMAIN e) \cap {"jsNumber", "jsNull"} = {}
\* The properties every object and number inherits (one is enough here).
ObjectPrototype == { "toString" }

\* JSON.stringify of one element of data: NaN and Infinity become null.
StringifyEntry(e) ==
    IF "jsNull" \in DOMAIN e THEN JsonNull
    ELSE IF "jsNumber" \in DOMAIN e THEN JsonNumber(e.jsNumber)
    ELSE JsonObject([ f \in DOMAIN e |->
                        IF f \in RatioFields /\ ~IsFinite(e[f])
                        THEN JsonNull
                        ELSE JsonNumber(e[f]) ])

\* JSON.parse of one element of the data array.
ParseEntry(j) ==
    IF j.t = "null" THEN JsNull
    ELSE IF j.t = "number" THEN JsNumber(j.v)
    ELSE [ f \in DOMAIN j.o |->
             IF j.o[f].t = "number" THEN j.o[f].v ELSE NullField ]

\* Array.prototype.slice(start)
SliceFrom(s, start) ==
    LET from == IF start < 0 THEN Max(Len(s) + start, 0) ELSE Min(start, Len(s))
    IN  SubSeq(s, from + 1, Len(s))

\* AnalyticsHistory.exportData (without the two wall-clock times).
ExportData(data, capacity) ==
    JsonText(JsonObject(
      [ metadata |-> JsonObject([ dataPointCount |-> JsonNumber(Len(data)),
                                  maxDataPoints  |-> JsonNumber(capacity) ]),
        data     |-> JsonArray([ i \in 1..Len(data) |-> StringifyEntry(data[i]) ]) ]))

\* Variant of importData that adds the imported entries to the stored ones.
ImportDataAppending(data, jsonData) ==
    IF ~jsonData.valid \/ jsonData.doc.t # "object" THEN data
    ELSE IF "data" \notin DOMAIN jsonData.doc.o THEN data
    ELSE IF jsonData.doc.o.data.t # "array" THEN data
    ELSE LET a == jsonData.doc.o.data.a
             d == data \o [ i \in 1..Len(a) |-> ParseEntry(a[i]) ]
         IN  IF Len(d) > maxDataPoints THEN SliceFrom(d, -maxDataPoints) ELSE d

\* AnalyticsHistory.importData: the new value of data.  A text that is not
\* JSON makes JSON.parse throw and a document null makes imported.data
\* throw; both are caught.  Any other document without an array in data
\* is skipped.
ImportData(data, jsonData) ==
    IF ~jsonData.valid \/ jsonData.doc.t # "object" THEN data
    ELSE IF "data" \notin DOMAIN jsonData.doc.o THEN data
    ELSE IF jsonData.doc.o.data.t # "array" THEN data
    ELSE LET a == jsonData.doc.o.data.a
             d == [ i \in 1..Len(a) |-> ParseEntry(a[i]) ]
         IN  IF Len(d) > maxDataPoints THEN SliceFrom(d, -maxDataPoints) ELSE d

\* snapshot[metric] || 0
OrZero(e, metric) ==
    IF IsObject(e) /\ metric \in DOMAIN e
    THEN IF metric \in RatioFields
         THEN IF e[metric] = NullField \/ e[metric][1] = 0 THEN 0 ELSE e[metric]
         ELSE IF e[metric] = 0 THEN 0 ELSE e[metric]
    ELSE IF metric \in ObjectPrototype THEN [function |-> metric]
    ELSE 0

\* Variant of getTimeSeriesData that leaves out the snapshots without the
\* metric.
GetTimeSeriesDataSkippingMissing(data, metric) ==
    LET having == SelectSeq(data, LAMBDA s : IsObject(s) /\ metric \in DOMAIN s)
    IN  [ series |-> [ i \in 1..Len(having) |->
                         [ x |-> having[i].tick, y |-> OrZero(having[i], metric) ] ] ]

\* AnalyticsHistory.getTimeSeriesData: reading a property of null throws.
GetTimeSeriesData(data, metric) ==
    IF \E i \in 1..Len(data) : "jsNull" \in DOMAIN data[i]
    THEN [ threw |-> "TypeError" ]
    ELSE [ series |->
             [ i \in 1..Len(data) |->
                 [ x |-> IF "tick" \in DOMAIN data[i] THEN data[i].tick
                         ELSE undefined,
                   y |-> OrZero(data[i], metric) ] ] ]

\* The statistics a market hands to recordSnapshot at its tick t.
StatsOfTick(t) ==
    [ GetMarketStats EXCEPT !.tickCount = t,
                            !.currentYear = config.starting_year + t - 1 ]
\* The snapshots of the first n ticks.
Recording(n) == [ i \in 1..n |-> SnapshotOf(StatsOfTick(i)) ]

\* The texts given to importData.
Payloads ==
    { NotJson,
      JsonText(JsonNull),
      JsonText(JsonObject([ invalid |-> JsonString("structure") ])),
      JsonText(JsonObject([ data |-> JsonString("structure") ])),
      JsonText(JsonObject([ data |-> JsonArray(<< JsonNumber(42) >>) ])),
      JsonText(JsonObject([ data |-> JsonArray(<< JsonNull >>) ])) }
      \cup { ExportData(Recording(n), MaxRecords) : n \in 0..MaxRecords }
\* The metric names given to getTimeSeriesData.
Metrics == { "tick", "nonExistentMetric", "toString" }
NoArgument == [ none |-> TRUE ]

\* new AnalyticsHistory(maxDataPoints), next to a market that supplies the
\* statistics.
HistoryInit ==
    /\ NewMarket
    /\ config.num_people = 2 /\ config.n_auction_steps = 1
    /\ config.turnover_in = 1 /\ config.turnover_out = 1
    /\ \A h \in HouseIds : houses[h].intrinsicValue = 8000
    /\ persons[1].wealth = 20000 /\ persons[2].wealth = 4000
    /\ analyticsHistory = << >>
    /\ maxDataPoints \in 0..MaxCapacity
    /\ returned = undefined
    /\ localStorage = undefined
    /\ simulation = undefined
    /\ timers = NoTimers
    /\ lastCall = [ op |-> "new AnalyticsHistory", arg |-> NoArgument,
                    recorded |-> << >>, onlyRecords |-> TRUE,
                    exported |-> [ present |-> FALSE ] ]

\* history.recordSnapshot(marketStats)
RecordSnapshotCall ==
    /\ Len(lastCall.recorded) < MaxRecords
    /\ LET marketStats == StatsOfTick(Len(lastCall.recorded) + 1)
       IN  /\ analyticsHistory' = RecordSnapshot(analyticsHistory, marketStats)
           /\ lastCall' = [ lastCall EXCEPT
                              !.op = "recordSnapshot",
                              !.arg = [ tick |-> marketStats.tickCount ],
                              !.recorded = Append(@, SnapshotOf(marketStats)) ]
    /\ returned' = undefined
    /\ UNCHANGED << maxDataPoints, marketVars, localStorage, simulation, timers >>

\* history.importData(jsonData), with a sampled text or the last export.
ImportDataCall ==
    /\ \E jsonData \in Payloads \cup
                       (IF lastCall.exported.present
                        THEN { lastCall.exported.text } ELSE {}) :
         /\ analyticsHistory' = ImportData(analyticsHistory, jsonData)
         /\ lastCall' = [ lastCall EXCEPT !.op = "importData",
                                          !.arg = jsonData,
                                          !.onlyRecords = FALSE ]
    /\ returned' = undefined
    /\ UNCHANGED << maxDataPoints, marketVars, localStorage, simulation, timers >>

\* history.clear()
ClearCall ==
    /\ analyticsHistory' = << >>
    /\ lastCall' = [ lastCall EXCEPT !.op = "clear", !.arg = NoArgument,
                                     !.onlyRecords = FALSE ]
    /\ returned' = undefined
    /\ UNCHANGED << maxDataPoints, marketVars, localStorage, simulation, timers >>

\* history.exportData()
ExportDataCall ==
    /\ returned' = ExportData(analyticsHistory, maxDataPoints)
    /\ lastCall' = [ lastCall EXCEPT
                       !.op = "exportData", !.arg = NoArgument,
                       !.exported = [ present |-> TRUE,
                                      data |-> analyticsHistory,
                                      text |-> returned' ] ]
    /\ UNCHANGED << analyticsHistory, maxDataPoints, marketVars, localStorage, simulation, timers >>

\* history.getTimeSeriesData(metric)
GetTimeSeriesDataCall ==
    /\ \E metric \in Metrics :
         /\ returned' = GetTimeSeriesData(analyticsHistory, metric)
         /\ lastCall' = [ lastCall EXCEPT !.op = "getTimeSeriesData",
                                          !.arg = [ metric |-> metric ] ]
    /\ UNCHANGED << analyticsHistory, maxDataPoints, marketVars, localStorage, simulation, timers >>

HistoryNext ==
    \/ RecordSnapshotCall
    \/ ImportDataCall
    \/ ClearCall
    \/ ExportDataCall
    \/ GetTimeSeriesDataCall

SpecHistory == HistoryInit /\ [][HistoryNext]_vars

\* ------------------------------------------------------------- Config
\* Largest number of keys in the userConfig given to new Config.
MaxOverrides == 2
\* setInterval calls of one behaviour (caps the timer ids).
MaxTimers == 3

\* The keys validate() looks at, in its order.
ValidatedKeys ==
    << "num_houses", "num_people", "wealth_mean", "wealth_std",
       "house_price_mean", "house_price_std", "value_intrinsicness",
       "turnover_in", "turnover_out", "upgrade_threshold", "n_auction_steps" >>
\* The keys whose value is kept as a quotient (a pair).
RatioKeys == { "value_intrinsicness", "upgrade_threshold", "vacant_depreciation" }
\* The keys a sampled userConfig may set.
ConfigKeys == Range(ValidatedKeys) \cup { "vacant_depreciation" }

\* The i-th sample value of a key: below, at and above its lower limit
\* (for a quotient with an upper limit: below, inside and above the range).
SampleValue(key, i) ==
    CASE key = "value_intrinsicness" -> << <<-1, 10>>, <<1, 2>>, <<3, 2>> >>[i]
      [] key = "upgrade_threshold"   -> << <<-1, 2>>, <<0, 1>>, <<3, 2>> >>[i]
      [] key = "vacant_depreciation" -> << <<-1, 10>>, <<1, 10>>, <<1, 2>> >>[i]
      [] OTHER                       -> << -1, 0, 5 >>[i]

\* { ...a, ...b }
Merge(a, b) ==
    [ k \in (DOMAIN a) \cup (DOMAIN b) |-> IF k \in DOMAIN b THEN b[k] ELSE a[k] ]

\* One check of validate(): TRUE when it pushes an error for the key.
Fails(cfg, key) ==
    CASE key = "value_intrinsicness" -> cfg[key][1] < 0 \/ cfg[key][1] > cfg[key][2]
      [] key = "upgrade_threshold"   -> cfg[key][1] <= 0
      [] key \in { "turnover_in", "turnover_out" } -> cfg[key] < 0
      [] OTHER                       -> cfg[key] <= 0

\* Variant of validate() that checks the sizes of the market only.
ValidateCountsOnly(cfg) ==
    SelectSeq(<< "num_houses", "num_people" >>, LAMBDA key : Fails(cfg, key))

\* Config.validate: the keys with an error, in order; it throws when there
\* is one.
Validate(cfg) ==
    SelectSeq(ValidatedKeys, LAMBDA key : Fails(cfg, key))

\* The settings a browser has saved (numbers as JSON numbers).
SavedSettings ==
    JsonText(JsonObject([ num_people          |-> JsonNumber(50),
                          vacant_depreciation |-> JsonNumber(<<1, 10>>) ]))
\* localStorage: undefined outside a browser, else with or without the
\* item housing-sim-settings.
Storages ==
    { undefined, [ present |-> FALSE ], [ present |-> TRUE, item |-> SavedSettings ] }

\* Config.loadFromStorage
LoadFromStorage ==
    IF localStorage = undefined THEN << >>
    ELSE IF ~localStorage.present THEN << >>
    ELSE IF ~localStorage.item.valid THEN << >>
    ELSE [ k \in DOMAIN localStorage.item.doc.o |-> localStorage.item.doc.o[k].v ]

\* No Config object yet; no market and no history either.
ConfigInit ==
    /\ config = undefined
    /\ localStorage \in Storages
    /\ simulation = undefined
    /\ timers = NoTimers
    /\ returned = undefined
    /\ lastCall = [ op |-> "none", arg |-> NoArgument ]
    /\ houses = << >> /\ persons = << >> /\ people = << >>
    /\ availableHouses = << >>
    /\ currentYear = DEFAULT_CONFIG.starting_year /\ tickCount = 0
    /\ lastAuctionResults = [ set |-> FALSE, results |-> << >> ]
    /\ analyticsHistory = << >> /\ maxDataPoints = DefaultMaxDataPoints
    /\ pc = "idle"
    /\ auction = [ houses |-> << >>, eligibleBidders |-> << >>,
                   results |-> << >>, housesFromUpgrades |-> << >> ]
    /\ allAuctionResults = << >> /\ housesPerBatch = 0 /\ batchNum = 0
    /\ tickLog = << >>

\* new Config(userConfig), once, at the start of the program: config is
\* the object's config, or undefined when the constructor threw.
NewConfig ==
    /\ lastCall.op = "none"
    /\ \E K \in { S \in SUBSET ConfigKeys : Cardinality(S) <= MaxOverrides } :
       \E c \in [K -> 1..3] :
         LET userConfig == [ k \in K |-> SampleValue(k, c[k]) ]
             savedSettings == LoadFromStorage
             merged == Merge(Merge(DEFAULT_CONFIG, savedSettings), userConfig)
             errors == Validate(merged)
         IN  /\ config' = IF errors = << >> THEN merged ELSE undefined
             /\ returned' = IF errors = << >> THEN undefined
                            ELSE [ threw |-> errors ]
             /\ lastCall' = [ op |-> "new Config", arg |-> userConfig ]
    /\ UNCHANGED << localStorage, simulation, timers, analyticsHistory, maxDataPoints, houses,
                    persons, people, availableHouses, currentYear, tickCount,
                    lastAuctionResults, pc, auction, allAuctionResults,
                    housesPerBatch, batchNum, tickLog >>

\* The keys of Config.SETTINGS_METADATA: the user-configurable settings.
SETTINGS_METADATA ==
    { "num_houses", "num_people", "wealth_mean", "wealth_std",
      "house_price_mean", "house_price_std", "value_intrinsicness",
      "vacant_depreciation", "turnover_in", "turnover_out",
      "upgrade_threshold", "n_auction_steps", "simulation_speed",
      "starting_year" }

\* Config.saveToStorage: what localStorage holds after it; nothing is saved
\* outside a browser.
SaveToStorage(cfg) ==
    IF localStorage = undefined THEN undefined
    ELSE [ present |-> TRUE,
           item |-> JsonText(JsonObject(
                      [ k \in SETTINGS_METADATA \cap DOMAIN cfg |->
                          JsonNumber(cfg[k]) ])) ]

\* The keys the sampled calls of set give a value to; canvas_width is not
\* a user-configurable setting.
SetKeys == { "num_people", "value_intrinsicness", "vacant_depreciation",
             "canvas_width" }
\* The keys of the sampled arguments of updateSettings.
UpdateKeys == { "num_people", "turnover_in", "canvas_width" }

\* config.set(key, value), the first call on the object after its
\* construction: the value is assigned, then validate() runs, and the
\* settings are saved when it did not throw and the key is a setting.
Set ==
    /\ lastCall.op = "new Config" /\ config # undefined
    /\ \E key \in SetKeys : \E i \in 1..3 :
         LET value == SampleValue(key, i)
             assigned == Merge(config, [ k \in {key} |-> value ])
             errors == Validate(assigned)
         IN  /\ config' = assigned
             /\ returned' = IF errors = << >> THEN undefined
                            ELSE [ threw |-> errors ]
             /\ localStorage' = IF errors = << >> /\ key \in SETTINGS_METADATA
                                THEN SaveToStorage(assigned)
                                ELSE localStorage
             /\ lastCall' = [ op |-> "set", arg |-> [ k \in {key} |-> value ],
                              before |-> config ]
    /\ UNCHANGED << simulation, timers, analyticsHistory, maxDataPoints, houses,
                    persons, people, availableHouses, currentYear, tickCount,
                    lastAuctionResults, pc, auction, allAuctionResults,
                    housesPerBatch, batchNum, tickLog >>

\* config.updateSettings(newSettings), the first call on the object after
\* its construction: the entries whose key is a setting are assigned, then
\* validate() runs, then the settings are saved.
UpdateSettings ==
    /\ lastCall.op = "new Config" /\ config # undefined
    /\ \E K \in SUBSET UpdateKeys : \E c \in [K -> 1..3] :
         LET newSettings == [ k \in K |-> SampleValue(k, c[k]) ]
             assigned == Merge(config,
                               [ k \in K \cap SETTINGS_METADATA |->
                                   newSettings[k] ])
             errors == Validate(assigned)
         IN  /\ config' = assigned
             /\ returned' = IF errors = << >> THEN undefined
                            ELSE [ threw |-> errors ]
             /\ localStorage' = IF errors = << >> THEN SaveToStorage(assigned)
                                ELSE localStorage
             /\ lastCall' = [ op |-> "updateSettings", arg |-> newSettings,
                              before |-> config ]
    /\ UNCHANGED << simulation, timers, analyticsHistory, maxDataPoints, houses,
                    persons, people, availableHouses, currentYear, tickCount,
                    lastAuctionResults, pc, auction, allAuctionResults,
                    housesPerBatch, batchNum, tickLog >>

\* config.resetToDefaults(), the first call on the object after its
\* construction: every setting gets its default, then validate() runs, then
\* the settings are saved.
ResetToDefaults ==
    /\ lastCall.op = "new Config" /\ config # undefined
    /\ LET assigned == Merge(config, [ k \in SETTINGS_METADATA |->
                                         DEFAULT_CONFIG[k] ])
           errors == Validate(assigned)
       IN  /\ config' = assigned
           /\ returned' = IF errors = << >> THEN undefined
                          ELSE [ threw |-> errors ]
           /\ localStorage' = IF errors = << >> THEN SaveToStorage(assigned)
                              ELSE localStorage
           /\ lastCall' = [ op |-> "resetToDefaults", arg |-> NoArgument,
                            before |-> config ]
    /\ UNCHANGED << simulation, timers, analyticsHistory, maxDataPoints, houses,
                    persons, people, availableHouses, currentYear, tickCount,
                    lastAuctionResults, pc, auction, allAuctionResults,
                    housesPerBatch, batchNum, tickLog >>

ConfigNext == NewConfig \/ Set \/ UpdateSettings \/ ResetToDefaults

SpecConfig == ConfigInit /\ [][ConfigNext]_vars

\* ------------------------------------------------------------ Simulation
\* The house values sampled for the markets of a Simulation.
SimulationHousePrices == { 8000 }
\* The positions of the speed slider that are sampled (its ends).
SliderSpeeds == { 100, 3000 }

\* setInterval(callback, delay): the table with one more timer; the id
\* returned is table.next.
SetInterval(table, delay) ==
    [ next |-> table.next + 1,
      active |-> table.active \cup { [ id |-> table.next, delay |-> delay ] } ]

\* clearInterval(id): an id that names no active timer clears nothing.
ClearInterval(table, id) ==
    [ table EXCEPT !.active = { t \in @ : t.id # id } ]

\* The methods below take and return the pair s of the Simulation's fields
\* and the timer table; speed is config.get('simulation_speed').
\* Simulation.start
SimulationStart(s, speed) ==
    IF s.simulation.isRunning /\ ~s.simulation.isPaused THEN s
    ELSE [ simulation |-> [ isRunning |-> TRUE, isPaused |-> FALSE,
                            intervalId |-> s.timers.next ],
           timers |-> SetInterval(s.timers, speed) ]

\* Variant of pause that leaves the interval timer running.
SimulationPauseKeepingTimer(s) ==
    IF ~s.simulation.isRunning \/ s.simulation.isPaused THEN s
    ELSE [ s EXCEPT !.simulation.isPaused = TRUE ]

\* Simulation.pause
SimulationPause(s) ==
    IF ~s.simulation.isRunning \/ s.simulation.isPaused THEN s
    ELSE [ simulation |-> [ s.simulation EXCEPT !.isPaused = TRUE ],
           timers |-> ClearInterval(s.timers, s.simulation.intervalId) ]

\* Simulation.resume
SimulationResume(s, speed) ==
    IF ~s.simulation.isRunning \/ ~s.simulation.isPaused THEN s
    ELSE [ simulation |-> [ s.simulation EXCEPT !.isPaused = FALSE,
                                                !.intervalId = s.timers.next ],
           timers |-> SetInterval(s.timers, speed) ]

\* Simulation.stop
SimulationStop(s) ==
    [ simulation |-> [ isRunning |-> FALSE, isPaused |-> FALSE,
                       intervalId |-> null ],
      timers |-> IF s.simulation.intervalId # null
                 THEN ClearInterval(s.timers, s.simulation.intervalId)
                 ELSE s.timers ]

\* The Simulation's fields and the timer table of the current state.
Driver == [ simulation |-> simulation, timers |-> timers ]

\* new Simulation() in a browser without saved settings: a market of three
\* houses and one person who leaves in the first tick, nothing running.
SimulationInit ==
    /\ NewMarket
    /\ config.num_people = 1 /\ config.n_auction_steps = 1
    /\ config.turnover_in = 0 /\ config.turnover_out = 2
    /\ \A h \in HouseIds : houses[h].intrinsicValue \in SimulationHousePrices
    /\ persons[1].wealth = 20000
    /\ analyticsHistory = << >>
    /\ maxDataPoints = DefaultMaxDataPoints
    /\ returned = undefined
    /\ localStorage = [ present |-> FALSE ]
    /\ lastCall = [ op |-> "new Simulation" ]
    /\ simulation = [ isRunning |-> FALSE, isPaused |-> FALSE,
                      intervalId |-> null ]
    /\ timers = NoTimers

\* What a handler of the Simulation leaves alone when it touches neither
\* the market nor the configuration.
marketAndHistory == << marketVars, analyticsHistory, maxDataPoints, returned,
                       localStorage >>

\* simulation.start(): the click on startBtn.
Start ==
    /\ pc = "idle" /\ timers.next <= MaxTimers
    /\ LET s == SimulationStart(Driver, config.simulation_speed)
       IN  simulation' = s.simulation /\ timers' = s.timers
    /\ lastCall' = [ op |-> "start" ]
    /\ UNCHANGED marketAndHistory

\* simulation.pause(): the click on pauseBtn.
Pause ==
    /\ pc = "idle"
    /\ LET s == SimulationPause(Driver)
       IN  simulation' = s.simulation /\ timers' = s.timers
    /\ lastCall' = [ op |-> "pause" ]
    /\ UNCHANGED marketAndHistory

\* simulation.resume()
Resume ==
    /\ pc = "idle" /\ timers.next <= MaxTimers
    /\ LET s == SimulationResume(Driver, config.simulation_speed)
       IN  simulation' = s.simulation /\ timers' = s.timers
    /\ lastCall' = [ op |-> "resume" ]
    /\ UNCHANGED marketAndHistory

\* simulation.stop()
Stop ==
    /\ pc = "idle"
    /\ LET s == SimulationStop(Driver)
       IN  simulation' = s.simulation /\ timers' = s.timers
    /\ lastCall' = [ op |-> "stop" ]
    /\ UNCHANGED marketAndHistory

\* simulation.reset(): stop(), then a new Market for the same Config, with
\* newly sampled house values and wealths and a new AnalyticsHistory.
Reset ==
    /\ pc = "idle"
    /\ LET s == SimulationStop(Driver)
       IN  simulation' = s.simulation /\ timers' = s.timers
    /\ \E ivs \in [1..config.num_houses -> SimulationHousePrices],
          ws \in [1..config.num_people -> Wealths] :
         LET market == CreateMarket(config, ivs, ws)
         IN  /\ houses' = market.houses
             /\ persons' = market.persons
             /\ people' = market.people
             /\ availableHouses' = market.availableHouses
             /\ currentYear' = market.currentYear
             /\ tickLog' = market.tickLog
    /\ tickCount' = 0
    /\ lastAuctionResults' = [ set |-> FALSE, results |-> << >> ]
    /\ auction' = [ houses |-> << >>, eligibleBidders |-> << >>,
                    results |-> << >>, housesFromUpgrades |-> << >> ]
    /\ allAuctionResults' = << >>
    /\ housesPerBatch' = 0
    /\ batchNum' = 0
    /\ analyticsHistory' = << >>
    /\ maxDataPoints' = DefaultMaxDataPoints
    /\ lastCall' = [ op |-> "reset" ]
    /\ UNCHANGED << config, pc, returned, localStorage >>

\* The input handler of speedSlider: config.set('simulation_speed',
\* newSpeed), and when that did not throw and the simulation is running
\* and not paused, stop() and start().
SpeedInput ==
    /\ pc = "idle" /\ timers.next <= MaxTimers
    /\ \E newSpeed \in SliderSpeeds :
         LET assigned == Merge(config, [ k \in {"simulation_speed"} |-> newSpeed ])
             errors == Validate(assigned)
             s == IF errors = << >> /\ simulation.isRunning
                                    /\ ~simulation.isPaused
                  THEN SimulationStart(SimulationStop(Driver),
                                       assigned.simulation_speed)
                  ELSE Driver
         IN  /\ config' = assigned
             /\ returned' = IF errors = << >> THEN undefined
                            ELSE [ threw |-> errors ]
             /\ localStorage' = IF errors = << >> THEN SaveToStorage(assigned)
                                ELSE localStorage
             /\ simulation' = s.simulation /\ timers' = s.timers
             /\ lastCall' = [ op |-> "speed", arg |-> newSpeed ]
    /\ UNCHANGED << houses, persons, people, availableHouses, currentYear,
                    tickCount, lastAuctionResults, pc, auction,
                    allAuctionResults, housesPerBatch, batchNum, tickLog,
                    analyticsHistory, maxDataPoints >>

\* simulation.step(): the click on stepBtn; market.tick() begins and runs
\* to its end before another handler does.
Step ==
    /\ simulation # undefined
    /\ TickBegin

\* The callback of an active interval timer: step().
IntervalCallback ==
    /\ \E t \in timers.active : t.id > null
    /\ TickBegin

SimulationNext ==
    \/ Start
    \/ Pause
    \/ Resume
    \/ Stop
    \/ Reset
    \/ SpeedInput
    \/ Step
    \/ IntervalCallback
    \/ ApplyVacantDepreciation
    \/ ProcessExits
    \/ ProcessEntries
    \/ ConductAuctionsBegin
    \/ ConductBatch
    \/ ExecuteTransactions
    \/ ConductAuctionsEnd
    \/ TickEnd

SpecSimulation == SimulationInit /\ [][SimulationNext]_vars

\* =================================================================
\* Properties
\* =================================================================
TheWorld == World(houses, persons)
Live == Range(people)
Results == auction.results
\* Winners of the results before the i-th of the current batch.
WonBefore(i) == { Results[j].winner : j \in 1..(i - 1) } \ {null}
\* The live persons that may bid on the house of the i-th result of the
\* current batch, evaluated before the batch's transactions.
EligibleBidders(i) ==
    { p \in Live : /\ p \notin WonBefore(i)
                   /\ ShouldBid(TheWorld, p, Results[i].house,
                                config.upgrade_threshold) }

\* C1: after construction and after every tick, ownership is consistent in
\* both directions: the owner of a house is a live person whose house it is,
\* and the house of a live person has that person as owner.
C1_OwnershipBidirectional ==
    pc = "idle" =>
      /\ \A h \in HouseIds :
           houses[h].owner # null =>
             /\ houses[h].owner \in Live
             /\ persons[houses[h].owner].house = h
      /\ \A p \in Live :
           persons[p].house # null => houses[persons[p].house].owner = p

\* C1 witness: a tick has ended in which a person left, a house was sold
\* and an owner moved to another house.
C1_Witness ==
    /\ pc = "idle" /\ tickCount > 0
    /\ Len(people) < tickLog.peopleBefore + config.turnover_in
    /\ tickLog.fromUpgrades # {}
    /\ \E h \in HouseIds : houses[h].owner # null

\* C2: after every tick the snapshot has occupiedHouses + availableHouses =
\* totalHouses and occupiedHouses = housedPeople.
C2_OccupiedPlusAvailableIsTotal ==
    (pc = "idle" /\ tickCount > 0) =>
      LET stats == GetMarketStats
      IN  /\ stats.occupiedHouses + stats.availableHouses = stats.totalHouses
          /\ stats.occupiedHouses = stats.housedPeople

\* C3: across all the batches of one tick no person wins more than one
\* auction result.
C3_NoWinnerTwiceInTick ==
    \A i, j \in 1..Len(allAuctionResults) :
        (i < j /\ allAuctionResults[i].winner # null)
          => allAuctionResults[i].winner # allAuctionResults[j].winner

\* C4: pricing rule.  With two or more eligible bidders the winner is an
\* eligible bidder of maximum wealth and the price is the second-highest
\* bid; with exactly one eligible bidder the price is 0.75 of their wealth.
C4_PricingRule ==
    pc = "execute" =>
      \A i \in 1..Len(Results) :
        LET r == Results[i]
            E == EligibleBidders(i)
        IN  /\ Cardinality(E) >= 2 =>
                /\ r.winner \in E
                /\ \A q \in E : persons[q].wealth <= persons[r.winner].wealth
                /\ \E q \in E \ {r.winner} : persons[q].wealth = r.secondPrice
                /\ \A q \in E \ {r.winner} : persons[q].wealth <= r.secondPrice
            /\ Cardinality(E) = 1 =>
                /\ r.winner \in E
                /\ 4 * r.secondPrice = 3 * persons[r.winner].wealth

\* C4 witness: one batch holds a house with several bidders, sold below
\* the winning bid, and a house with a single bidder.
C4_Witness ==
    /\ pc = "execute"
    /\ \E i \in 1..Len(Results) :
         Cardinality(EligibleBidders(i)) >= 2
           /\ Results[i].secondPrice < Results[i].winningBid
    /\ \E r \in Range(allAuctionResults) \cup Range(lastAuctionResults.results)
                \cup Range(Results) : r.bidderCount = 1

\* C5: a house without eligible bidders gets the result (no winner, 0, 0, 0)
\* and the execution of the batch leaves its owner, last selling price and
\* years since ownership as they were and keeps it in the available list.
C5_NoBidderHouseUntouched ==
    [][ pc = "execute" =>
          \A i \in 1..Len(Results) :
            EligibleBidders(i) = {} =>
              LET r == Results[i]
              IN  /\ r.winner = null /\ r.winningBid = 0
                  /\ r.secondPrice = 0 /\ r.bidderCount = 0
                  /\ houses'[r.house].owner = houses[r.house].owner
                  /\ houses'[r.house].lastSellingPrice
                       = houses[r.house].lastSellingPrice
                  /\ houses'[r.house].yearsSinceOwnership
                       = houses[r.house].yearsSinceOwnership
                  /\ Includes(availableHouses', r.house) ]_vars

\* C5 witness: a batch has been executed in which one house found no
\* bidder and another one was sold.
C5_Witness ==
    /\ pc = "batch" /\ batchNum > 0
    /\ \E i \in 1..Len(Results) : Results[i].winner = null
    /\ \E i \in 1..Len(Results) : Results[i].winner # null

\* The thresholds C6 is evaluated with.
C6_Thresholds == { <<1, 1>>, <<3, 2>>, <<2, 1>> }

C7_BatchWinnersDistinct ==
    \A i, j \in 1..Len(Results) :
      (i < j /\ Results[i].winner # null) =>
        /\ Results[i].winner \notin Range(Results[j].allBids)
        /\ Results[i].winner # Results[j].winner

\* C7 witness: the winner of an earlier house of the batch would otherwise
\* bid on a later house of it, which somebody else wins.
C7_Witness ==
    /\ pc = "execute"
    /\ \E i, j \in 1..Len(Results) :
         /\ i < j /\ Results[i].winner # null /\ Results[j].winner # null
         /\ ShouldBid(TheWorld, Results[i].winner, Results[j].house,
                      config.upgrade_threshold)

\* C8: a house released by an upgrade in tick t has no owner and is in the
\* available list at the start of the clearing step of tick t+1.
C8_UpgradedHouseRelisted ==
    pc = "auctions" =>
      \A x \in tickLog.fromUpgrades :
        houses[x].owner = null /\ Includes(availableHouses, x)

\* C9: every house available at the start of the clearing step is put up
\* for auction exactly once in the tick.
C9_EachAvailableAuctionedOnce ==
    (pc = "record" /\ tickLog.availableAtClearing # <<>>) =>
      /\ Len(lastAuctionResults.results) = Len(tickLog.availableAtClearing)
      /\ \A h \in Range(tickLog.availableAtClearing) :
           Cardinality({ i \in 1..Len(lastAuctionResults.results) :
                           lastAuctionResults.results[i].house = h }) = 1

\* C10: the population after a tick is
\* previous - min(turnover_out, previous) + turnover_in.
C10_TurnoverAccounting ==
    (pc = "idle" /\ tickCount > 0) =>
      Len(people) = tickLog.peopleBefore
                      - Min(config.turnover_out, tickLog.peopleBefore)
                      + config.turnover_in

\* C10 witness: a tick has ended that began with fewer persons than
\* turnover_out.
C10_Witness ==
    /\ pc = "idle" /\ tickCount > 0
    /\ tickLog.peopleBefore > 0
    /\ tickLog.peopleBefore < config.turnover_out
\* The persons removed by the exit step of the running tick.
Exited == Range(tickLog.exiting)
\* The house person p owned when the running tick began (null if none).
HouseBefore(p) ==
    IF \E h \in HouseIds : tickLog.housesBefore[h].owner = p
    THEN CHOOSE h \in HouseIds : tickLog.housesBefore[h].owner = p
    ELSE null

\* C11: the exit step removes distinct persons taken from the live
\* population, housed or not; the house of every removed owner has no owner
\* and is in the available list when the clearing of the same tick starts,
\* and no house keeps a removed person as owner.
C11_ExitsReleaseHouses ==
    pc \in {"entries", "auctions"} =>
      /\ Cardinality(Exited) = Len(tickLog.exiting)
      /\ Exited \cap Live = {}
      /\ Cardinality(Exited) + Cardinality(Live \ tickLog.entered)
           = tickLog.peopleBefore
      /\ \A p \in Exited :
           HouseBefore(p) # null =>
             /\ houses[HouseBefore(p)].owner = null
             /\ Includes(availableHouses, HouseBefore(p))
      /\ \A h \in HouseIds : houses[h].owner \notin Exited

\* C11 witness: the clearing step is about to start after an exit step
\* that removed an owner and a person without house.
C11_Witness ==
    /\ pc = "auctions"
    /\ \E p, q \in Exited : HouseBefore(p) # null /\ HouseBefore(q) = null
\* C12: the steps of a tick run in the order age, depreciate, exit, entry,
\* clear.  A house released by an exit of the tick keeps the intrinsic value
\* it had when the tick began; the bidders of a batch contain no person
\* removed in the tick and every person created in it, and such a person
\* bids on every house of the batch that shouldBid accepts for them.
C12_StepOrder ==
    /\ \A p \in Exited :
         HouseBefore(p) # null =>
           houses[HouseBefore(p)].intrinsicValue
             = tickLog.housesBefore[HouseBefore(p)].intrinsicValue
    /\ pc = "execute" =>
         /\ Range(auction.eligibleBidders) \cap Exited = {}
         /\ tickLog.entered \subseteq Range(auction.eligibleBidders)
         /\ \A i \in 1..Len(Results) :
              /\ Range(Results[i].allBids) \cap Exited = {}
              /\ \A p \in tickLog.entered :
                   p \in EligibleBidders(i) => p \in Range(Results[i].allBids)

\* C12 witness: a batch offers a house that an exit of the same tick
\* released, and a person created in the tick bids on it.
C12_Witness ==
    /\ pc = "execute"
    /\ \E p \in Exited, i \in 1..Len(Results), q \in tickLog.entered :
         /\ HouseBefore(p) # null
         /\ Results[i].house = HouseBefore(p)
         /\ q \in Range(Results[i].allBids)
\* v -> max(v * (1 - r), 1000) applied k times to v, for r = rate[1]/rate[2];
\* -1 when a product is not an integer.
DepreciatedTimes(v, rate, k) ==
    LET F[i \in 0..k] ==
          IF i = 0 THEN v
          ELSE IF F[i - 1] < 0 \/ (F[i - 1] * (rate[2] - rate[1])) % rate[2] # 0
               THEN -1
               ELSE Max((F[i - 1] * (rate[2] - rate[1])) \div rate[2], 1000)
    IN  F[k]

\* C13: with a rate r > 0, a house that had no owner at the depreciation
\* step of the last k consecutive ticks has the intrinsic value obtained by
\* applying v -> max(v * (1 - r), 1000) k times to the value it had before
\* them; from 100000 with r = 0.05 two steps give 90250.
C13_CompoundDepreciation ==
    /\ config.vacant_depreciation[1] > 0 =>
         \A h \in HouseIds :
           houses[h].intrinsicValue
             = DepreciatedTimes(tickLog.vacantRun[h].base,
                                config.vacant_depreciation,
                                tickLog.vacantRun[h].k)
    /\ HouseApplyVacantDepreciation(
         HouseApplyVacantDepreciation(NewHouse(100000, 100000), <<1, 20>>),
         <<1, 20>>).intrinsicValue = 90250

\* C13 witness: a house was vacant at the depreciation step of two ticks in
\* a row and lost 5% twice.
C13_Witness ==
    /\ pc = "idle"
    /\ config.vacant_depreciation = <<1, 20>>
    /\ \E h \in HouseIds :
         /\ tickLog.vacantRun[h].k >= 2
         /\ houses[h].intrinsicValue * 400 = tickLog.vacantRun[h].base * 361
\* The houses whose ownership changed during the running tick: released by
\* an exit or an upgrade, or sold.
Transferred ==
    tickLog.transferred
      \cup { h \in HouseIds : houses[h].owner # tickLog.housesBefore[h].owner }

C15_ResultsOfThisTickOnly ==
    (pc = "idle" /\ tickCount > 0) =>
      /\ lastAuctionResults.set
      /\ lastAuctionResults.results
           = IF tickLog.availableAtClearing = <<>> THEN <<>>
             ELSE allAuctionResults
\* shouldBid with the house values computed under the configured
\* value_intrinsicness.
EligibleUnderConfig(p, h) ==
    LET vi == config.value_intrinsicness
        th == config.upgrade_threshold
        value(x) == vi[1] * houses[x].intrinsicValue
                      + (vi[2] - vi[1]) * houses[x].lastSellingPrice
        own == persons[p].house
    IN  /\ persons[p].wealth * vi[2] >= value(h)
        /\ own # null => th[2] * value(h) >= th[1] * value(own)

\* C16: the bidders of a house in a batch are exactly the live persons,
\* not yet winners in the batch, that are eligible with the house values
\* computed under the configured value_intrinsicness.
C16_EligibilityUnderConfiguredIntrinsicness ==
    pc = "execute" =>
      \A i \in 1..Len(Results) :
        Range(Results[i].allBids)
          = { p \in Live \ WonBefore(i) :
                EligibleUnderConfig(p, Results[i].house) }
\* C17: executeTransactions.  For every result with a winner, afterwards the
\* house's owner is the winner, the winner's house is that house, its last
\* selling price is the result's price and its yearsSinceOwnership is 0; a
\* house the winner owned before has no owner and yearsSinceOwnership 0.
C17_ExecuteTransactionsTransfers ==
    [][ pc = "execute" =>
          \A i \in 1..Len(Results) :
            LET r == Results[i]
                old == persons[r.winner].house
            IN  r.winner # null =>
                  /\ houses'[r.house].owner = r.winner
                  /\ persons'[r.winner].house = r.house
                  /\ houses'[r.house].lastSellingPrice = r.secondPrice
                  /\ houses'[r.house].yearsSinceOwnership = 0
                  /\ old # null =>
                       /\ houses'[old].owner = null
                       /\ houses'[old].yearsSinceOwnership = 0 ]_vars

\* C17 witness: a batch has been executed in which an owner and a person
\* without house each bought a house below their bid.
C17_Witness ==
    /\ pc = "batch" /\ batchNum > 0
    /\ Len(auction.housesFromUpgrades) > 0
    /\ Cardinality({ i \in 1..Len(Results) :
                       /\ Results[i].winner # null
                       /\ Results[i].secondPrice < Results[i].winningBid
                       /\ houses[Results[i].house].owner = Results[i].winner })
         >= 2
\* C18: the wealth of a person is fixed at creation: no step of a tick
\* (aging, depreciation, exit, entry, auction, purchase, upgrade, release)
\* changes the wealth of a person that exists.
C18_WealthFixed ==
    [][ /\ Len(persons') >= Len(persons)
        /\ \A p \in 1..Len(persons) :
             persons'[p].wealth = persons[p].wealth ]_vars

\* C18 witness: a tick has ended in which an owner left, a person bought a
\* first house and an owner moved to another house.
C18_Witness ==
    /\ pc = "idle" /\ tickCount > 0
    /\ \E p \in Exited : HouseBefore(p) # null
    /\ tickLog.fromUpgrades # {}
    /\ \E p \in Live :
         /\ persons[p].house # null
         /\ HouseBefore(p) = null
         /\ houses[persons[p].house].lastSellingPrice > 0
\* C19: the intrinsic value of a house changes only in the depreciation
\* step and only while the house has no owner: sales, releases and the other
\* steps leave it as it is, and a house that has an owner at the
\* depreciation step of a tick has the same intrinsic value after the tick.
C19_IntrinsicValueFrame ==
    [][ /\ \A h \in HouseIds :
             (pc # "depreciate" \/ houses[h].owner # null) =>
               houses'[h].intrinsicValue = houses[h].intrinsicValue
        /\ pc' = "idle" =>
             \A h \in HouseIds :
               tickLog'.housesBefore[h].owner # null =>
                 houses'[h].intrinsicValue
                   = tickLog'.housesBefore[h].intrinsicValue ]_vars

\* C19 witness: a tick has ended in which a vacant house lost value, and a
\* house that had an owner at the depreciation step was released and sold.
C19_Witness ==
    /\ pc = "idle" /\ tickCount > 0
    /\ \E h \in HouseIds :
         houses[h].intrinsicValue < tickLog.housesBefore[h].intrinsicValue
    /\ \E h \in HouseIds :
         /\ tickLog.housesBefore[h].owner # null
         /\ houses[h].owner # null
         /\ houses[h].owner # tickLog.housesBefore[h].owner
\* The allocation right after construction with exactly count houses
\* owned: the owned houses are the lowest-valued ones, their owners the
\* poorest persons, paired in ascending order; every other house is in the
\* available list and every other person has no house.
InitialAllocation(count) ==
    LET owned == { h \in HouseIds : houses[h].owner # null }
        housed == { p \in Live : persons[p].house # null }
    IN  /\ Cardinality(owned) = count
        /\ Cardinality(housed) = count
        /\ \A h \in owned :
             /\ houses[h].owner \in housed
             /\ persons[houses[h].owner].house = h
        /\ \A h \in owned, g \in HouseIds \ owned :
             houses[h].intrinsicValue <= houses[g].intrinsicValue
        /\ \A p \in housed, q \in Live \ housed :
             persons[p].wealth <= persons[q].wealth
        /\ \A h, g \in owned :
             houses[h].intrinsicValue < houses[g].intrinsicValue
               => persons[houses[h].owner].wealth
                    <= persons[houses[g].owner].wealth
        /\ Range(availableHouses) = HouseIds \ owned
        /\ Len(availableHouses) = Cardinality(HouseIds \ owned)

LatestSnapshot == analyticsHistory[Len(analyticsHistory)]

\* C21: in the snapshot computed at the end of a tick, marketVelocity is the
\* number of houses that were transferred to an owner during that tick.
C21_VelocityCountsTransfersOfTick ==
    (pc = "idle" /\ tickCount > 0) =>
      LatestSnapshot.marketVelocity
        = Cardinality({ h \in HouseIds :
                          /\ houses[h].owner # null
                          /\ houses[h].owner # tickLog.housesBefore[h].owner })
\* g is a number of [0, 1], and 0 for a population ws that is uniform, has
\* at most one person or has no wealth.
GiniInRange(g, ws) ==
    /\ g[2] > 0
    /\ 0 <= g[1] /\ g[1] <= g[2]
    /\ ( \/ Len(ws) <= 1
         \/ \A i, j \in 1..Len(ws) : ws[i] = ws[j]
         \/ SumSeq(ws) = 0 ) => g[1] = 0

\* C22: the Gini coefficient of the statistics lies in [0, 1] and is 0 when
\* all wealths are equal, when there is at most one person and when the
\* total wealth is zero; the same holds for the coefficient of every vector
\* of at most MaxGiniPeople non-negative wealths (evaluated once, on the
\* market just constructed).
C22_GiniBounds ==
    /\ GiniInRange(GetMarketStats.giniCoefficient,
                   [i \in 1..Len(people) |-> persons[people[i]].wealth])
    /\ tickCount = 0 =>
         \A n \in 0..MaxGiniPeople : \A ws \in [1..n -> GiniWealths] :
           GiniInRange(GiniCoefficient(ws), ws)

\* C22 witness: the statistics of a population of three persons of unequal
\* wealth have a Gini coefficient strictly between 0 and 1.
C22_Witness ==
    /\ Len(people) = 3
    /\ GetMarketStats.giniCoefficient[1] > 0
    /\ GetMarketStats.giniCoefficient[1] < GetMarketStats.giniCoefficient[2]
\* C23: the number of stored snapshots never exceeds maxDataPoints, and a
\* history that has only seen n recordSnapshot calls holds the most recent
\* min(n, maxDataPoints) snapshots in recording order.
C23_CountWithinCapacity ==
    /\ Len(analyticsHistory) <= maxDataPoints
    /\ lastCall.onlyRecords =>
         LET n == Len(lastCall.recorded)
             k == Min(n, maxDataPoints)
         IN  analyticsHistory = SubSeq(lastCall.recorded, n - k + 1, n)

\* C24: after k ticks (k not above the capacity) the history holds exactly
\* k snapshots with tick fields 1..k in order; the snapshot appended at the
\* end of a tick is the one of the statistics at that moment, and no other
\* step of any tick alters the stored snapshots.
C24_HistoryAppendOnly ==
    [][ /\ pc = "record" =>
             /\ analyticsHistory'
                  = Append(analyticsHistory, SnapshotOf(GetMarketStats))
             /\ LatestSnapshot'.year = currentYear
             /\ LatestSnapshot'.totalPeople = Len(people)
             /\ LatestSnapshot'.occupiedHouses
                  = Cardinality({ h \in HouseIds : houses[h].owner # null })
        /\ pc # "record" => analyticsHistory' = analyticsHistory
        /\ (pc' = "idle" /\ tickCount' <= maxDataPoints) =>
             /\ Len(analyticsHistory') = tickCount'
             /\ \A i \in 1..Len(analyticsHistory') :
                  analyticsHistory'[i].tick = i ]_vars

\* C24 witness: two ticks have ended and the history holds two snapshots
\* that differ in their population.
C24_Witness ==
    /\ pc = "idle" /\ tickCount >= 2
    /\ Len(analyticsHistory) >= 2
    /\ analyticsHistory[1].totalPeople # analyticsHistory[2].totalPeople
\* Every numeric field of the snapshot is a finite number.
FiniteSnapshot(s) ==
    /\ \A f \in RatioFields : s[f][2] # 0
    /\ \A f \in (DOMAIN s) \ RatioFields : s[f] \in Int

\* C30: a tick of a market without participants and with turnover_in = 0
\* ends with every auction result without a winner, no house with a
\* changed owner, every numeric field of the snapshot finite, and average
\* wealth, Gini coefficient, wealth concentration and affordability ratio
\* equal to 0.
C30_EmptyPopulationTick ==
    (pc = "idle" /\ tickCount > 0 /\ tickLog.peopleBefore = 0
       /\ config.turnover_in = 0) =>
      /\ \A i \in 1..Len(lastAuctionResults.results) :
           lastAuctionResults.results[i].winner = null
      /\ \A h \in HouseIds : houses[h].owner = tickLog.housesBefore[h].owner
      /\ FiniteSnapshot(LatestSnapshot)
      /\ LatestSnapshot.tick = tickCount
      /\ LatestSnapshot.averageWealth[1] = 0
      /\ LatestSnapshot.giniCoefficient[1] = 0
      /\ LatestSnapshot.wealthConcentration[1] = 0
      /\ LatestSnapshot.affordabilityRatio[1] = 0

\* C30 witness: a tick that began without participants and with
\* turnover_in = 0 has ended after auctioning at least one house.
C30_Witness ==
    /\ pc = "idle" /\ tickCount > 0 /\ tickLog.peopleBefore = 0
    /\ config.turnover_in = 0
    /\ lastAuctionResults.set /\ Len(lastAuctionResults.results) > 0
    /\ LatestSnapshot.totalPeople = 0
\* The fields of every snapshot recordSnapshot builds.
SnapshotFields == DOMAIN SnapshotOf(GetMarketStats)
IsSnapshot(e) == DOMAIN e = SnapshotFields
\* The JavaScript operator in: own and inherited properties.
Contains(e, metric) == metric \in DOMAIN e \/ metric \in ObjectPrototype

Malformed(jsonData) ==
    \/ ~jsonData.valid
    \/ jsonData.doc.t # "object"
    \/ "data" \notin DOMAIN jsonData.doc.o
    \/ jsonData.doc.o.data.t # "array"
    \/ \E i \in 1..Len(jsonData.doc.o.data.a) :
         \/ jsonData.doc.o.data.a[i].t # "object"
         \/ DOMAIN jsonData.doc.o.data.a[i].o # SnapshotFields

\* C26: importData of a malformed text leaves the stored history as it
\* was before the call.
C26_MalformedImportRejected ==
    [][ (lastCall'.op = "importData" /\ Malformed(lastCall'.arg))
          => analyticsHistory' = analyticsHistory ]_vars

\* C27: importing the text exportData returned for a history of n
\* snapshots into a history of capacity at least n leaves exactly those
\* snapshots, in the same order; the same for the export of the first n
\* recorded snapshots by a history of any other capacity.
C27_ExportImportRoundTrip ==
    lastCall.op = "importData" =>
      /\ ( /\ lastCall.exported.present
           /\ lastCall.arg = lastCall.exported.text
           /\ Len(lastCall.exported.data) <= maxDataPoints )
         => analyticsHistory = lastCall.exported.data
      /\ \A n \in 0..MaxRecords :
           (lastCall.arg = ExportData(Recording(n), MaxRecords)
              /\ n <= maxDataPoints)
             => analyticsHistory = Recording(n)

\* C27 witness: a history that held two snapshots, was exported and then
\* cleared has imported its own export.
C27_Witness ==
    /\ lastCall.op = "importData"
    /\ lastCall.exported.present
    /\ lastCall.arg = lastCall.exported.text
    /\ Len(lastCall.exported.data) = 2
    /\ \A i \in 1..2 : IsSnapshot(lastCall.exported.data[i])
    /\ Len(analyticsHistory) = 2
\* A userConfig the constructor has to refuse: a count, a mean or a spread
\* of wealth or price, the upgrade threshold or the number of auction
\* steps that is not positive, an intrinsicness outside [0, 1], or a
\* negative turnover.
Refused(userConfig) ==
    \E k \in DOMAIN userConfig :
       \/ k \in { "num_houses", "num_people", "wealth_mean", "wealth_std",
                  "house_price_mean", "house_price_std", "n_auction_steps" }
            /\ userConfig[k] <= 0
       \/ k = "upgrade_threshold" /\ userConfig[k][1] <= 0
       \/ k = "value_intrinsicness"
            /\ (userConfig[k][1] < 0 \/ userConfig[k][1] > userConfig[k][2])
       \/ k \in { "turnover_in", "turnover_out" } /\ userConfig[k] < 0

\* C28: new Config(userConfig) throws, and yields no configuration, when
\* userConfig holds a non-positive count, wealth or price mean or spread,
\* upgrade threshold or number of auction steps, an intrinsicness outside
\* [0, 1] or a negative turnover.
C28_InvalidConfigRefused ==
    (lastCall.op = "new Config" /\ Refused(lastCall.arg)) =>
      /\ "threw" \in DOMAIN returned
      /\ config = undefined

\* C28 witness: a construction was refused for an upgrade threshold of 0
\* and another key left at a valid value.
C28_Witness ==
    /\ lastCall.op = "new Config"
    /\ DOMAIN lastCall.arg = { "upgrade_threshold", "turnover_in" }
    /\ lastCall.arg.upgrade_threshold = <<0, 1>>
    /\ lastCall.arg.turnover_in = 0
    /\ "threw" \in DOMAIN returned
    /\ returned.threw = << "upgrade_threshold" >>

\* C29: new Config(userConfig) throws when the vacant depreciation rate of
\* userConfig lies outside [0, 0.2].
C29_DepreciationRangeEnforced ==
    ( /\ lastCall.op = "new Config"
      /\ "vacant_depreciation" \in DOMAIN lastCall.arg
      /\ \/ lastCall.arg.vacant_depreciation[1] < 0
         \/ 5 * lastCall.arg.vacant_depreciation[1]
              > lastCall.arg.vacant_depreciation[2] ) =>
      "threw" \in DOMAIN returned
\* The houses of the current batch a live person is eligible for, before
\* the batch's transactions.
EligibleHouses(p) ==
    { i \in 1..Len(Results) :
        ShouldBid(TheWorld, p, Results[i].house, config.upgrade_threshold) }
\* The live persons eligible for a house of the batch, and those of them
\* wealthier than everyone else in the set S.
BatchBidders == { p \in Live : EligibleHouses(p) # {} }
Wealthiest(S) ==
    { p \in S : \A q \in S \ {p} : persons[q].wealth < persons[p].wealth }
\* The houses of I worth more than every other house of I.
HighestValued(I) ==
    { i \in I : \A j \in I \ {i} :
        CalculateValue(houses[Results[j].house])
          < CalculateValue(houses[Results[i].house]) }

\* C31: in a cleared batch, in whatever order it lists its houses, the
\* wealthiest bidder wins the highest-valued house they are eligible for,
\* and the next wealthiest bidder wins one of the other houses they are
\* eligible for.
C31_WealthiestWinsBestHouse ==
    pc = "execute" =>
      \A w \in Wealthiest(BatchBidders) :
        /\ \A i \in HighestValued(EligibleHouses(w)) : Results[i].winner = w
        /\ \A x \in Wealthiest(BatchBidders \ {w}) :
             \A i \in HighestValued(EligibleHouses(w)) :
               EligibleHouses(x) \ {i} # {} =>
                 \E j \in EligibleHouses(x) \ {i} : Results[j].winner = x
\* C32: in a market just constructed every person housed by the initial
\* allocation can afford their house: their wealth is at least its value.
C32_InitialOwnersCanAfford ==
    (pc = "idle" /\ tickCount = 0) =>
      \A p \in Live :
        persons[p].house # null => CanAfford(TheWorld, p, persons[p].house)
\* C33: a house released by an upgrade during a tick is in no auction
\* result computed later in that tick: not in the results of a later
\* batch, and not in the results of the batch that released it.
C33_ReleasedHouseNotAuctioned ==
    /\ pc = "execute" =>
         \A i \in 1..Len(Results) : Results[i].house \notin tickLog.fromUpgrades
    /\ pc = "batch" =>
         \A i \in 1..Len(Results) :
           ~Includes(auction.housesFromUpgrades, Results[i].house)

\* C33 witness: the second batch of a tick has been cleared after an
\* upgrade in the first batch released a house.
C33_Witness ==
    /\ pc = "execute" /\ batchNum = 1
    /\ tickLog.fromUpgrades # {}
    /\ Len(Results) > 0
\* C34: after the clearing step of a tick no house on the available list
\* is affordable to a live person without a house.
C34_NoAffordableHouseLeft ==
    pc = "record" =>
      \A i \in 1..Len(availableHouses) : \A p \in Live :
        persons[p].house = null => ~CanAfford(TheWorld, p, availableHouses[i])
\* C35: for every auction result with a winner the clearing price is at
\* most the winning bid, the winning bid is the winner's wealth, and the
\* winner's wealth is at least the value of the house at the time of the
\* auction, which is its value under the configured value_intrinsicness.
C35_WinnerPaysWithinMeans ==
    pc = "execute" =>
      \A i \in 1..Len(Results) :
        LET r == Results[i]
            vi == config.value_intrinsicness
        IN  r.winner # null =>
              /\ r.secondPrice <= r.winningBid
              /\ r.winningBid = persons[r.winner].wealth
              /\ persons[r.winner].wealth * vi[2]
                   >= CalculateValueTimes(houses[r.house], vi)
\* Sample intrinsic values and rates in (0, 1] for applyVacantDepreciation;
\* 500 is the value of the house in the unit test of the minimum.
DepreciationValues == {500, 999, 1000, 8000, 100000}
DepreciationRates == {<<1, 20>>, <<9, 10>>, <<1, 1>>}
\* The intrinsic value of a house after one call of applyVacantDepreciation
\* is at most what it was before.
NotIncreased(house, rate) ==
    HouseApplyVacantDepreciation(house, rate).intrinsicValue
      <= house.intrinsicValue
\* C36 as stated: applyVacantDepreciation with a rate in (0, 1], one of
\* the sample rates or the configured one, never increases the intrinsic
\* value of a house, whatever that value is.
C36_DepreciationNeverIncreases ==
    \A iv \in DepreciationValues :
      \A rate \in DepreciationRates \cup {config.vacant_depreciation} :
        rate[1] > 0 => NotIncreased(NewHouse(iv, iv), rate)
\* C36 amended: applyVacantDepreciation with a rate in (0, 1] does not
\* increase an intrinsic value that is at least the minimum of 1000: on
\* the sample values, and on every house of every reachable state under
\* the configured rate.
C36_DepreciationNeverIncreasesAboveMinimum ==
    /\ \A iv \in DepreciationValues : \A rate \in DepreciationRates :
         iv >= MinIntrinsicValue => NotIncreased(NewHouse(iv, iv), rate)
    /\ \A h \in HouseIds :
         (/\ config.vacant_depreciation[1] > 0
          /\ houses[h].intrinsicValue >= MinIntrinsicValue)
           => NotIncreased(houses[h], config.vacant_depreciation)
\* C36 witness: the depreciation step of a tick has just lowered the
\* intrinsic value of a vacant house from 8000 to 7600.
C36_Witness ==
    /\ pc = "exits"
    /\ config.vacant_depreciation = <<1, 20>>
    /\ \E h \in HouseIds :
         /\ IsAvailable(houses[h])
         /\ tickLog.vacantRun[h].k = 1
         /\ tickLog.vacantRun[h].base = 8000
         /\ houses[h].intrinsicValue = 7600
\* C37: when set or updateSettings throws, the configuration is what it
\* was before the call, and a configuration that can be read with get()
\* passes validate().
C37_FailedUpdateLeavesConfig ==
    /\ ( /\ lastCall.op \in { "set", "updateSettings" }
         /\ "threw" \in DOMAIN returned ) => config = lastCall.before
    /\ lastCall.op \in { "new Config", "set", "updateSettings" } =>
         (config # undefined => Validate(config) = << >>)
\* C38: whatever the sequence of start, pause, resume, stop, reset and speed
\* changes, at most one interval timer is active, and one is active exactly
\* when isRunning is true and isPaused is false.
C38_OneTimerWhileRunning ==
    simulation # undefined =>
      /\ Cardinality(timers.active) <= 1
      /\ (timers.active # {}) <=> (simulation.isRunning /\ ~simulation.isPaused)

\* C38 witness: the simulation was started, paused and resumed, and a speed
\* change then replaced the running timer by one with the new delay.
C38_Witness ==
    /\ simulation # undefined
    /\ lastCall = [ op |-> "speed", arg |-> 100 ]
    /\ simulation.isRunning /\ ~simulation.isPaused
    /\ simulation.intervalId = 3
    /\ timers.active = { [ id |-> 3, delay |-> 100 ] }
\* C39: after construction and after every tick the available list holds
\* no house twice and only houses without an owner.
C39_AvailableListSound ==
    pc = "idle" =>
      /\ \A i, j \in 1..Len(availableHouses) :
           availableHouses[i] = availableHouses[j] => i = j
      /\ \A i \in 1..Len(availableHouses) :
           houses[availableHouses[i]].owner = null

\* C39 witness: a tick has ended in which the house of a leaving owner
\* went on the list and stayed there, and a listed house was sold.
C39_Witness ==
    /\ pc = "idle" /\ tickCount >= 1
    /\ \E i \in 1..Len(tickLog.exiting) : \E h \in HouseIds :
         /\ tickLog.housesBefore[h].owner = tickLog.exiting[i]
         /\ Includes(availableHouses, h)
    /\ \E i \in 1..Len(lastAuctionResults.results) :
         /\ lastAuctionResults.results[i].winner # null
         /\ ~Includes(availableHouses, lastAuctionResults.results[i].house)
====
